---- MODULE Spec2Model ----
(***************************************************************************)
(* Conversation fork/thread data model, context builder and compaction     *)
(* orchestrator of chatbox-custom.                                         *)
(*                                                                         *)
(*   src/src/renderer/packages/context-management/context-builder.ts       *)
(*       buildContextForAI, needsCompaction, runCompactionWithUIState,     *)
(*       runCompactionWithStreaming, context-token cache key, threads      *)
(*   src/src/renderer/stores/session/forks.ts                              *)
(*       createNewFork, switchFork, switchForkToPosition, deleteFork,      *)
(*       expandFork                                                        *)
(*   src/unnamed/part_001                                                  *)
(*       genMessageContext                                                 *)
(*                                                                         *)
(* Scheduling: the code runs on one JavaScript thread.  An action of this  *)
(* module is one run of a handler between two suspension points at an      *)
(* external asynchronous boundary (a store read or write, the summarizer   *)
(* call).  The continuation of an await on a promise that an async         *)
(* function of this core has already settled runs in the microtask that    *)
(* follows, before any I/O callback or UI event, and is part of the same   *)
(* action.                                                                 *)
(***************************************************************************)
EXTENDS Integers, Sequences, FiniteSets, TLC

VARIABLES
    messages,            \* Session.messages: the live timeline
    compactionPoints,    \* Session.compactionPoints of the live timeline
    highlightContextRoles, \* Session.settings.highlightContextRoles (role filter)
    context,             \* the last context derived from the session
    built,               \* which derivation produced `context`
    sessionExists,       \* whether chatStore.getSession finds the session
    modelConfigured,     \* session.settings.modelId ?? defaultChatModel.model is set
    ongoingCompactions,  \* the process-wide in-flight set of session ids
    uiState,             \* compaction UI state of the session (setCompactionUIState)
    pc,                  \* per runCompaction call: the await it is suspended at
    result,              \* per call: the CompactionResult it returned
    snapshot,            \* per call: session.messages as getSession returned them
    pending,             \* per call: the summary message and point it will commit
    summarizerCalls,     \* per call: invocations of generateSummaryWithStream
    options,             \* per call: options.boundaryMessageId it was given, NoId if unset
    now,                 \* the last value Date.now() returned
    nextId,              \* the next fresh message id (uuid)
    threads,             \* Session.threads: the archived timelines
    messageForksHash,    \* Session.messageForksHash: anchor id -> fork entry
    lastForkOp,          \* the Fork Engine operation applied last
    settings,            \* auto-compaction toggles, maxContextMessageCount, tokenizer
    queryCache,          \* queryClient: context-token cache, key -> entry
    needs,               \* what the last needsCompaction call returned
    writtenFor,          \* history: cache key -> ids of the context its entry was written for
    threadOp,            \* the thread operation between its read and its write
    cancelled            \* the messages whose cancel hook the last thread operation invoked

sessionVars == <<messages, compactionPoints, highlightContextRoles, sessionExists,
                 modelConfigured, threads, messageForksHash>>

contextVars == <<context, built>>

tokenVars == <<settings, queryCache, needs, writtenFor>>

threadVars == <<threadOp, cancelled>>

compactionVars == <<ongoingCompactions, uiState, pc, result, snapshot, pending,
                    summarizerCalls, options, now, nextId>>

vars == <<messages, compactionPoints, highlightContextRoles, sessionExists,
          modelConfigured, context, built, ongoingCompactions, uiState, pc, result,
          snapshot, pending, summarizerCalls, options, now, nextId, threads, messageForksHash,
          lastForkOp, settings, queryCache, needs, writtenFor, threadOp,
          cancelled>>

-----------------------------------------------------------------------------
(* Bounds of the model *)

MaxLen == 3          \* longest timeline drawn as an input of the context builder

NumCalls == 2        \* runCompaction calls issued in one behaviour

MaxTime == 2         \* the greatest value Date.now() returns

MaxAppended == 1     \* messages the user appends in one behaviour

-----------------------------------------------------------------------------
(* Messages *)

Roles == {"system", "user", "assistant"}

\* highlightContextRoles: undefined, or the array of the roles kept
NoFilter == [defined |-> FALSE, roles |-> {}]

OnlyRoles(rs) == [defined |-> TRUE, roles |-> rs]

NoId == 0            \* an id that no message of a timeline carries

\* createMessage(role, ...) plus the flags the core reads
Msg(id, role, generating, isSummary, toolCalls) ==
    [id |-> id, role |-> role, generating |-> generating,
     isSummary |-> isSummary, toolCalls |-> toolCalls]

\* The shapes of message the application produces: a system prompt, a user
\* message, a finished assistant message, an assistant message that is still
\* streaming, a compaction summary, an assistant message with tool-call parts.
MsgKinds ==
    { [role |-> "system",    generating |-> FALSE, isSummary |-> FALSE, toolCalls |-> FALSE],
      [role |-> "user",      generating |-> FALSE, isSummary |-> FALSE, toolCalls |-> FALSE],
      [role |-> "assistant", generating |-> FALSE, isSummary |-> FALSE, toolCalls |-> FALSE],
      [role |-> "assistant", generating |-> TRUE,  isSummary |-> FALSE, toolCalls |-> FALSE],
      [role |-> "assistant", generating |-> FALSE, isSummary |-> TRUE,  toolCalls |-> FALSE],
      [role |-> "assistant", generating |-> FALSE, isSummary |-> FALSE, toolCalls |-> TRUE] }

OfKind(id, k) == Msg(id, k.role, k.generating, k.isSummary, k.toolCalls)

\* mutant: a branch is built without the messages it is given
ForkList_withoutMessages(id, msgs) == [id |-> id, messages |-> <<>>]

\* MessageForkEntry.lists[k]: a branch id and the messages stored out of line
ForkList(id, msgs) == [id |-> id, messages |-> msgs]

\* MessageForkEntry: the 0-based position of the live branch, and the branches
ForkEntry(position, lists) == [position |-> position, lists |-> lists]

\* null where a fork entry is expected
NoEntry == ForkEntry(-1, <<>>)

\* messageForksHash undefined, or without a key
NoForks == [a \in {} |-> NoEntry]

\* no Fork Engine operation has been applied
NoForkOp == [op |-> "none", anchor |-> NoId]

\* settings.autoCompaction of the session and of the application: undefined,
\* true or false
Toggles == {"undefined", "on", "off"}

\* getTokenizerType(model)
TokenizerTypes == {"default", "deepseek"}

\* no setting is defined, nothing is cached, needsCompaction was not called
TokensIdle ==
    /\ settings = [sessionAutoCompaction |-> "undefined",
                   globalAutoCompaction |-> "undefined",
                   maxContextMessageCount |-> -1,
                   tokenizerType |-> "default"]
    /\ queryCache = [k \in {} |-> 0]
    /\ needs = [value |-> FALSE, enabled |-> TRUE, called |-> FALSE]
    /\ writtenFor = [k \in {} |-> <<>>]

\* a session without threads and without forks
\* no thread operation is between its read and its write
NoThreadOp == [op |-> "none", arg |-> NoId, read |-> <<>>]

ThreadsIdle ==
    /\ threadOp = NoThreadOp
    /\ cancelled = {}

ForksIdle ==
    /\ threads = <<>>
    /\ messageForksHash = NoForks
    /\ lastForkOp = NoForkOp
    /\ TokensIdle
    /\ ThreadsIdle

Ids(msgs) == [i \in 1..Len(msgs) |-> msgs[i].id]

IdSet(msgs) == {msgs[i].id : i \in 1..Len(msgs)}

\* Array.prototype.findIndex(m => m.id === id), 1-based; 0 when absent
FindIndexById(msgs, id) ==
    IF \E i \in 1..Len(msgs) : msgs[i].id = id
    THEN CHOOSE i \in 1..Len(msgs) :
            /\ msgs[i].id = id
            /\ \A j \in 1..(i-1) : msgs[j].id # id
    ELSE 0

\* Array.prototype.slice(from) with a 1-based first index
SliceFrom(msgs, from) ==
    IF from > Len(msgs) THEN <<>> ELSE SubSeq(msgs, from, Len(msgs))

\* Array.prototype.slice(0, n)
Take(msgs, n) ==
    IF n <= 0 THEN <<>> ELSE SubSeq(msgs, 1, IF n > Len(msgs) THEN Len(msgs) ELSE n)

\* Array.prototype.slice(-n)
TakeLast(msgs, n) ==
    IF n >= Len(msgs) THEN msgs ELSE SubSeq(msgs, Len(msgs) - n + 1, Len(msgs))

\* messages.find((m) => m.role === 'system'): its index, 0 if none
FirstSystemIndex(msgs) ==
    IF \E i \in 1..Len(msgs) : msgs[i].role = "system"
    THEN CHOOSE i \in 1..Len(msgs) :
            /\ msgs[i].role = "system"
            /\ \A j \in 1..(i-1) : msgs[j].role # "system"
    ELSE 0

\* [...msgs].reverse().find((m) => m.role === 'user'): its index, 0 if none
LastUserIndex(msgs) ==
    IF \E i \in 1..Len(msgs) : msgs[i].role = "user"
    THEN CHOOSE i \in 1..Len(msgs) :
            /\ msgs[i].role = "user"
            /\ \A j \in (i+1)..Len(msgs) : msgs[j].role # "user"
    ELSE 0

-----------------------------------------------------------------------------
(* Tool-call cleanup (./tool-cleanup): tool-call parts are removed from the  *)
(* messages that are older than the last keepRounds rounds; a round starts   *)
(* at a user message.  Messages are kept, with their ids and their order.    *)

keepToolCallRoundsDefault == 2

UserIndices(msgs) == {i \in 1..Len(msgs) : msgs[i].role = "user"}

\* index of the user message that opens the keepRounds-th round from the tail
CutoffIndex(msgs, keepRounds) ==
    CHOOSE i \in UserIndices(msgs) :
        Cardinality({j \in UserIndices(msgs) : j >= i}) = keepRounds

cleanToolCalls(msgs, keepRounds) ==
    IF Len(msgs) = 0 \/ Cardinality(UserIndices(msgs)) <= keepRounds \/ keepRounds <= 0
    THEN msgs
    ELSE [i \in 1..Len(msgs) |->
            IF i < CutoffIndex(msgs, keepRounds)
            THEN [msgs[i] EXCEPT !.toolCalls = FALSE]
            ELSE msgs[i]]

-----------------------------------------------------------------------------
(* Context Builder *)

\* compactionPoints.reduce((latest, current) =>
\*     current.createdAt > latest.createdAt ? current : latest)
RECURSIVE ReduceLatest(_, _, _)
ReduceLatest(cps, i, latest) ==
    IF i > Len(cps) THEN latest
    ELSE ReduceLatest(cps, i + 1,
                      IF cps[i].createdAt > latest.createdAt THEN cps[i] ELSE latest)

NoPoint == [boundaryMessageId |-> NoId, summaryMessageId |-> NoId, createdAt |-> 0]

HasLatestCompactionPoint(cps) == Len(cps) > 0

\* mutant: the point listed last is taken for the latest
findLatestCompactionPoint_lastListed(cps) ==
    IF Len(cps) = 0 THEN NoPoint ELSE cps[Len(cps)]

findLatestCompactionPoint(cps) ==
    IF Len(cps) = 0 THEN NoPoint ELSE ReduceLatest(cps, 2, cps[1])

applyRoleFilter(msgs, contextRoles) ==
    IF contextRoles.defined
    THEN SelectSeq(msgs, LAMBDA m : m.role \in contextRoles.roles)
    ELSE msgs

\* mutant: generating messages are not dropped
completedMessages_keepGenerating(msgs) == msgs

\* messages.filter((m) => !m.generating)
completedMessages(msgs) == SelectSeq(msgs, LAMBDA m : ~m.generating)

\* mutant: slice(boundaryIndex) keeps the boundary message itself
messagesAfterBoundary_fromBoundary(completed, boundaryIndex) ==
    SelectSeq(SliceFrom(completed, boundaryIndex), LAMBDA m : ~m.isSummary)

\* completedMessages.slice(boundaryIndex + 1).filter((m) => !m.isSummary),
\* boundaryIndex being 1-based here
messagesAfterBoundary(completed, boundaryIndex) ==
    SelectSeq(SliceFrom(completed, boundaryIndex + 1), LAMBDA m : ~m.isSummary)

\* summaryMessage ? [summaryMessage, ...messagesAfterBoundary] : messagesAfterBoundary
withSummaryMessage(completed, summaryMessageId, after) ==
    LET summaryIndex == FindIndexById(completed, summaryMessageId)
    IN  IF summaryIndex # 0 THEN <<completed[summaryIndex]>> \o after ELSE after

\* mutant: the system message is not re-inserted
withSystemMessage_dropped(completed, contextMessages) == contextMessages

\* the first system message is put at the head unless the context holds it
withSystemMessage(completed, contextMessages) ==
    LET systemIndex == FirstSystemIndex(completed)
    IN  IF systemIndex # 0 /\ completed[systemIndex].id \notin IdSet(contextMessages)
        THEN <<completed[systemIndex]>> \o contextMessages
        ELSE contextMessages

buildContextForAI(msgs, cps, keepToolCallRounds, contextRoles) ==
    LET completed == completedMessages(msgs)
        latest == findLatestCompactionPoint(cps)
        boundaryIndex == FindIndexById(completed, latest.boundaryMessageId)
        contextMessages ==
            withSystemMessage(completed,
                withSummaryMessage(completed, latest.summaryMessageId,
                                   messagesAfterBoundary(completed, boundaryIndex)))
    IN  IF Len(completed) = 0 THEN <<>>
        ELSE IF ~HasLatestCompactionPoint(cps)
        THEN applyRoleFilter(cleanToolCalls(completed, keepToolCallRounds), contextRoles)
        ELSE IF boundaryIndex = 0
        THEN applyRoleFilter(cleanToolCalls(completed, keepToolCallRounds), contextRoles)
        ELSE applyRoleFilter(cleanToolCalls(contextMessages, keepToolCallRounds),
                             contextRoles)

\* buildContextForSession(session) without a threadId: the live timeline
buildContextForSession(msgs, cps, contextRoles) ==
    buildContextForAI(msgs, cps, keepToolCallRoundsDefault, contextRoles)

NoLimit == -1        \* maxContextMessageCount ?? Number.MAX_SAFE_INTEGER

\* selectMessagesForSendContext (./attachment-payload), as documented at its
\* call site: drops generating messages and applies maxContextMessageCount,
\* keeping a leading system message and the last maxCount other messages.
selectMessagesForSendContext(msgs, maxCount) ==
    LET completed == SelectSeq(msgs, LAMBDA m : ~m.generating)
        hasHead == Len(completed) > 0 /\ completed[1].role = "system"
        working == IF hasHead THEN SliceFrom(completed, 2) ELSE completed
        kept == IF maxCount = NoLimit THEN working ELSE TakeLast(working, maxCount)
    IN  IF hasHead THEN <<completed[1]>> \o kept ELSE kept

getContextMessagesForTokenEstimation(msgs, cps, contextRoles, maxCount) ==
    selectMessagesForSendContext(buildContextForSession(msgs, cps, contextRoles), maxCount)

\* genMessageContext(settings, msgs, _, {compactionPoints}): the messages sent
\* to the model for a generation whose target follows msgs.  Attachments are
\* fetched into copies of the messages and do not change which messages are sent.
genMessageContext(msgs, cps, contextRoles, maxCount) ==
    LET base ==
            IF Len(cps) > 0
            THEN buildContextForAI(msgs, cps, 2, contextRoles)
            ELSE applyRoleFilter(msgs, contextRoles)
        sysIx == FirstSystemIndex(msgs)
        userIx == LastUserIndex(msgs)
        withSystem ==
            IF contextRoles.defined /\ sysIx # 0 /\ msgs[sysIx].id \notin IdSet(base)
            THEN <<msgs[sysIx]>> \o base
            ELSE base
        contextMessages ==
            IF contextRoles.defined /\ userIx # 0
               /\ msgs[userIx].id \notin IdSet(withSystem)
            THEN Append(withSystem, msgs[userIx])
            ELSE withSystem
        hasHead == Len(contextMessages) > 0 /\ contextMessages[1].role = "system"
        workingMsgs == IF hasHead THEN SliceFrom(contextMessages, 2) ELSE contextMessages
        prompts == IF maxCount = NoLimit THEN workingMsgs
                   ELSE TakeLast(workingMsgs, maxCount + 1)
    IN  IF hasHead THEN <<contextMessages[1]>> \o prompts ELSE prompts

-----------------------------------------------------------------------------
(* Compaction Orchestrator *)

SessionId == "s1"

Calls == 1..NumCalls

\* CompactionResult
Result(success, compacted, error, summaryMessageId) ==
    [success |-> success, compacted |-> compacted, error |-> error,
     summaryMessageId |-> summaryMessageId]

NoError == "none"

NoResult == Result(FALSE, FALSE, "pending", NoId)

\* { success: true, compacted: false }
NotCompacted == Result(TRUE, FALSE, NoError, NoId)

Failure(error) == Result(FALSE, FALSE, error, NoId)

\* the compaction UI atom
UIState(status, error, streamingText) ==
    [status |-> status, error |-> error, streamingText |-> streamingText]

NoPending == [summaryMessage |-> Msg(NoId, "assistant", FALSE, TRUE, FALSE),
              point |-> NoPoint]

\* the awaits of runCompactionWithStreaming at which an admitted call is suspended
InFlight == {"getSession", "getSessionSettings", "summarizing", "updateSession"}

SessionPresent ==
    /\ sessionExists = TRUE
    /\ modelConfigured = TRUE
    /\ ForksIdle

CompactionIdle ==
    /\ ongoingCompactions = {}
    /\ uiState = UIState("idle", NoError, "")
    /\ pc = [p \in Calls |-> "idle"]
    /\ result = [p \in Calls |-> NoResult]
    /\ snapshot = [p \in Calls |-> <<>>]
    /\ pending = [p \in Calls |-> NoPending]
    /\ summarizerCalls = [p \in Calls |-> 0]
    /\ options = [p \in Calls |-> NoId]
    /\ now = 1
    /\ nextId = 1

\* mutant: the guard admits every call
admitted_always(ongoing, sessionId) == TRUE

\* !ongoingCompactions.has(sessionId)
admitted(ongoing, sessionId) == sessionId \notin ongoing

\* mutant: the in-flight marker is kept when the call exits
released_never(ongoing, sessionId) == ongoing

\* finally { ongoingCompactions.delete(sessionId) }
released(ongoing, sessionId) == ongoing \ {sessionId}

\* mutant: a failed result is shown as idle
uiStateAfter_alwaysIdle(res) == UIState("idle", NoError, "")

\* runCompactionWithUIState after the await: idle on success, failed otherwise
uiStateAfter(res) ==
    IF res.success
    THEN UIState("idle", NoError, "")
    ELSE UIState("failed", res.error, "")

\* [...session.messages].reverse().find((m) => !m.isSummary): its index, 0 if none
LastNonSummaryIndex(msgs) ==
    IF \E i \in 1..Len(msgs) : ~msgs[i].isSummary
    THEN CHOOSE i \in 1..Len(msgs) :
            /\ ~msgs[i].isSummary
            /\ \A j \in (i+1)..Len(msgs) : msgs[j].isSummary
    ELSE 0

\* mutant: the point names the summary message as its own boundary
newCompactionPoint_summaryAsBoundary(summaryMessage, boundaryMessage, createdAt) ==
    [summaryMessageId |-> summaryMessage.id,
     boundaryMessageId |-> summaryMessage.id,
     createdAt |-> createdAt]

newCompactionPoint(summaryMessage, boundaryMessage, createdAt) ==
    [summaryMessageId |-> summaryMessage.id,
     boundaryMessageId |-> boundaryMessage.id,
     createdAt |-> createdAt]

\* the return of runCompactionWithStreaming through its finally block, and
\* the rest of runCompactionWithUIState; the locals of the call are gone
Return(p, res) ==
    /\ ongoingCompactions' = released(ongoingCompactions, SessionId)
    /\ uiState' = uiStateAfter(res)
    /\ pc' = [pc EXCEPT ![p] = "done"]
    /\ result' = [result EXCEPT ![p] = res]
    /\ snapshot' = [snapshot EXCEPT ![p] = <<>>]
    /\ pending' = [pending EXCEPT ![p] = NoPending]

\* runCompactionWithUIState(sessionId, {force: true, boundaryMessageId}) up to
\* the first await of runCompactionWithStreaming, which is passed sessionId
\* alone; a call the guard skips runs to its end.  The calls are issued in
\* the order of their numbers.
StartWithOptions(p, boundaryMessageId) ==
    /\ pc[p] = "idle"
    /\ options' = [options EXCEPT ![p] = boundaryMessageId]
    /\ \A q \in Calls : q < p => pc[q] # "idle"
    /\ IF admitted(ongoingCompactions, SessionId)
       THEN /\ ongoingCompactions' = ongoingCompactions \cup {SessionId}
            /\ uiState' = UIState("running", NoError, "")
            /\ pc' = [pc EXCEPT ![p] = "getSession"]
            /\ UNCHANGED result
       ELSE /\ uiState' = uiStateAfter(NotCompacted)
            /\ pc' = [pc EXCEPT ![p] = "done"]
            /\ result' = [result EXCEPT ![p] = NotCompacted]
            /\ UNCHANGED ongoingCompactions
    /\ UNCHANGED <<sessionVars, contextVars, lastForkOp, tokenVars, threadVars, snapshot, pending, summarizerCalls, now, nextId>>

\* runCompactionWithUIState(sessionId, {force: true}): boundaryMessageId is
\* not set
Start(p) == StartWithOptions(p, NoId)

\* await chatStore.getSession(sessionId) resolves, or rejects
GetSession(p) ==
    /\ pc[p] = "getSession"
    /\ \/ Return(p, Failure("store error"))
       \/ /\ ~sessionExists
          /\ Return(p, Failure("Session not found"))
       \/ /\ sessionExists /\ ~modelConfigured
          /\ Return(p, NotCompacted)
       \/ /\ sessionExists /\ modelConfigured
          /\ snapshot' = [snapshot EXCEPT ![p] = messages]
          /\ pc' = [pc EXCEPT ![p] = "getSessionSettings"]
          /\ UNCHANGED <<ongoingCompactions, uiState, result, pending>>
    /\ UNCHANGED <<sessionVars, contextVars, lastForkOp, tokenVars, threadVars, summarizerCalls, options, now, nextId>>

\* mutant: the summarizer is called again when it was already called
generateSummaryWithStream_twice(calls, p) == [calls EXCEPT ![p] = @ + 2]

\* generateSummaryWithStream({...}) is called: one more call of the summarizer
generateSummaryWithStream(calls, p) == [calls EXCEPT ![p] = @ + 1]

\* await chatStore.getSessionSettings(sessionId) resolves, or rejects; the
\* summarizer is then called with the context of the session as read
GetSessionSettings(p) ==
    /\ pc[p] = "getSessionSettings"
    /\ \/ /\ Return(p, Failure("store error"))
          /\ UNCHANGED summarizerCalls
       \/ /\ summarizerCalls' = generateSummaryWithStream(summarizerCalls, p)
          /\ pc' = [pc EXCEPT ![p] = "summarizing"]
          /\ UNCHANGED <<ongoingCompactions, uiState, result, snapshot, pending>>
    /\ UNCHANGED <<sessionVars, contextVars, lastForkOp, tokenVars, threadVars, options, now, nextId>>

\* onStreamUpdate: setCompactionUIState(sessionId, { streamingText: text })
StreamUpdate(p) ==
    /\ pc[p] = "summarizing"
    /\ uiState' = [uiState EXCEPT !.streamingText = "partial"]
    /\ UNCHANGED <<sessionVars, contextVars, lastForkOp, tokenVars, threadVars, ongoingCompactions, pc, result, snapshot,
                   pending, summarizerCalls, options, now, nextId>>

SummaryOutcomes == {"summary", "failure", "no summary", "exception"}

\* await generateSummaryWithStream(...) resolves, or rejects; `time` is what
\* Date.now() returns for the new point: the clock never goes back
SummaryDone(p, outcome, time) ==
    /\ pc[p] = "summarizing"
    /\ LET summaryMessage == Msg(nextId, "assistant", FALSE, TRUE, FALSE)
           boundaryIndex == LastNonSummaryIndex(snapshot[p])
       IN  \/ /\ outcome = "failure"
              /\ Return(p, Failure("summarizer error"))
              /\ UNCHANGED <<nextId, now>>
           \/ /\ outcome = "no summary"
              /\ Return(p, Failure("Failed to generate summary"))
              /\ UNCHANGED <<nextId, now>>
           \/ /\ outcome = "exception"
              /\ Return(p, Failure("summarizer exception"))
              /\ UNCHANGED <<nextId, now>>
           \/ /\ outcome = "summary"
              /\ boundaryIndex = 0
              /\ nextId' = nextId + 1
              /\ Return(p, Failure("No messages to compact"))
              /\ UNCHANGED now
           \/ /\ outcome = "summary"
              /\ boundaryIndex # 0
              /\ nextId' = nextId + 1
              /\ pending' = [pending EXCEPT ![p] =
                    [summaryMessage |-> summaryMessage,
                     point |-> newCompactionPoint(summaryMessage,
                                                  snapshot[p][boundaryIndex], time)]]
              /\ now' = time
              /\ pc' = [pc EXCEPT ![p] = "updateSession"]
              /\ UNCHANGED <<ongoingCompactions, uiState, result, snapshot>>
    /\ UNCHANGED <<sessionVars, contextVars, lastForkOp, tokenVars, threadVars, summarizerCalls, options>>

\* await chatStore.updateSessionWithMessages(sessionId, updater): the updater
\* runs on the store's current session, or the write rejects
UpdateSession(p) ==
    /\ pc[p] = "updateSession"
    /\ \/ /\ Return(p, Failure("store error"))
          /\ UNCHANGED <<messages, compactionPoints>>
       \/ /\ ~sessionExists
          /\ Return(p, Failure("Session not found during update"))
          /\ UNCHANGED <<messages, compactionPoints>>
       \/ /\ sessionExists
          /\ messages' = Append(messages, pending[p].summaryMessage)
          /\ compactionPoints' = Append(compactionPoints, pending[p].point)
          /\ Return(p, Result(TRUE, TRUE, NoError, pending[p].summaryMessage.id))
    /\ UNCHANGED <<highlightContextRoles, sessionExists, modelConfigured, contextVars, lastForkOp, tokenVars, threadVars, threads,
                   messageForksHash,
                   summarizerCalls, options, now, nextId>>

InitialTimeline ==
    <<Msg(1, "system", FALSE, FALSE, FALSE), Msg(2, "user", FALSE, FALSE, FALSE),
      Msg(3, "assistant", FALSE, FALSE, FALSE)>>

FirstFreshId == Len(InitialTimeline) + 1

\* the user sends a message while the session is open (insertMessage)
AppendMessage ==
    /\ sessionExists
    /\ nextId < FirstFreshId + NumCalls + MaxAppended
    /\ Cardinality({i \in 1..Len(messages) :
                       messages[i].role = "user" /\ messages[i].id >= FirstFreshId})
          < MaxAppended
    /\ messages' = Append(messages, Msg(nextId, "user", FALSE, FALSE, FALSE))
    /\ nextId' = nextId + 1
    /\ UNCHANGED <<compactionPoints, highlightContextRoles, sessionExists,
                   modelConfigured, contextVars, lastForkOp, tokenVars, threadVars, threads,
                   messageForksHash, ongoingCompactions, uiState, pc,
                   result, snapshot, pending, summarizerCalls, options, now>>

\* the user deletes the most recent message of the live timeline (removeMessage)
RemoveMessage ==
    /\ sessionExists
    /\ Len(messages) > 0
    /\ messages' = Take(messages, Len(messages) - 1)
    /\ UNCHANGED <<compactionPoints, highlightContextRoles, sessionExists,
                   modelConfigured, contextVars, lastForkOp, tokenVars, threadVars, threads,
                   messageForksHash, compactionVars>>

\* the session is deleted
DeleteSession ==
    /\ sessionExists
    /\ sessionExists' = FALSE
    /\ UNCHANGED <<messages, compactionPoints, highlightContextRoles, modelConfigured,
                   contextVars, lastForkOp, tokenVars, threadVars, threads,
                   messageForksHash, compactionVars>>

CompactionInit ==
    /\ messages = InitialTimeline
    /\ compactionPoints = <<>>
    /\ highlightContextRoles = NoFilter
    /\ sessionExists = TRUE
    /\ modelConfigured \in BOOLEAN
    /\ context = <<>>
    /\ built = "none"
    /\ ongoingCompactions = {}
    /\ uiState = UIState("idle", NoError, "")
    /\ pc = [p \in Calls |-> "idle"]
    /\ result = [p \in Calls |-> NoResult]
    /\ snapshot = [p \in Calls |-> <<>>]
    /\ pending = [p \in Calls |-> NoPending]
    /\ summarizerCalls = [p \in Calls |-> 0]
    /\ options = [p \in Calls |-> NoId]
    /\ now = 1
    /\ nextId = FirstFreshId
    /\ ForksIdle

CallStep(p) ==
    \/ GetSession(p)
    \/ GetSessionSettings(p)
    \/ \E outcome \in SummaryOutcomes, time \in now..MaxTime : SummaryDone(p, outcome, time)
    \/ UpdateSession(p)

CompactionNext ==
    \/ \E p \in Calls : Start(p)
    \/ \E p \in Calls : CallStep(p)
    \/ \E p \in Calls : StreamUpdate(p)
    \/ AppendMessage
    \/ RemoveMessage
    \/ DeleteSession

SpecCompaction == CompactionInit /\ [][CompactionNext]_vars

-----------------------------------------------------------------------------
(* Fork Engine (stores/session/forks.ts) *)

MaxBranches == 3     \* createNewFork is not called on an entry with this many branches

MaxForkId == 4       \* insertMessage is not called once this message id is given out

ForkDirections == {"next", "prev"}

\* the part of the session the Fork Engine reads and patches
Session ==
    [messages |-> messages, threads |-> threads, messageForksHash |-> messageForksHash]

\* lists[index]?.messages ?? [] with the 0-based index of the code
MessagesAt(lists, index) ==
    IF index \in 0..(Len(lists) - 1) THEN lists[index + 1].messages ELSE <<>>

\* mutant: the filter removes no branch
WithoutIndex_none(lists, position) == lists

\* lists.filter((_, index) => index !== position)
WithoutIndex(lists, position) ==
    IF position \in 0..(Len(lists) - 1)
    THEN [k \in 1..(Len(lists) - 1) |-> IF k <= position THEN lists[k] ELSE lists[k + 1]]
    ELSE lists

\* lists.flatMap((list) => list.messages)
RECURSIVE FlatMessages(_)
FlatMessages(lists) ==
    IF Len(lists) = 0 THEN <<>> ELSE lists[1].messages \o FlatMessages(Tail(lists))

\* a transform that does not apply to the timeline returns null
NoTransform == [ok |-> FALSE, messages |-> <<>>, forkEntry |-> NoEntry]

Transformed(msgs, forkEntry) == [ok |-> TRUE, messages |-> msgs, forkEntry |-> forkEntry]

\* `fork_list_${uuidv4()}`: the Fork Engine writes branch ids and never reads
\* one, so one token stands for every branch id
NewListId == "fork_list_uuid"

\* mutant: the next fork map holds the anchor's entry and no other
computeNextMessageForksHash_anchorOnly(current, forkMessageId, nextEntry) ==
    IF nextEntry # NoEntry
    THEN [a \in {forkMessageId} |-> nextEntry]
    ELSE NoForks

computeNextMessageForksHash(current, forkMessageId, nextEntry) ==
    IF nextEntry # NoEntry
    THEN [a \in DOMAIN current \cup {forkMessageId} |->
            IF a = forkMessageId THEN nextEntry ELSE current[a]]
    ELSE [a \in DOMAIN current \ {forkMessageId} |-> current[a]]

\* the patch of a transform tried on the live timeline and then on the
\* threads in order: the first timeline it applies to is rewritten, and the
\* anchor's entry of the live fork map is replaced, or removed
applyForkTransform(session, forkMessageId, rootResult, threadResults) ==
    IF rootResult.ok
    THEN [session EXCEPT
            !.messages = rootResult.messages,
            !.messageForksHash =
                computeNextMessageForksHash(session.messageForksHash, forkMessageId,
                                            rootResult.forkEntry)]
    ELSE IF \E t \in 1..Len(session.threads) : threadResults[t].ok
    THEN LET changed == CHOOSE t \in 1..Len(session.threads) :
                            /\ threadResults[t].ok
                            /\ \A u \in 1..(t - 1) : ~threadResults[u].ok
         IN  [session EXCEPT
                !.threads[changed].messages = threadResults[changed].messages,
                !.messageForksHash =
                    computeNextMessageForksHash(session.messageForksHash, forkMessageId,
                                                threadResults[changed].forkEntry)]
    ELSE session

\* mutant: the branch switched to keeps its stored messages
clearedSlot_kept(list) == list

\* { ...list, messages: [] }
clearedSlot(list) == [list EXCEPT !.messages = <<>>]

\* mutant: 'prev' moves forward like 'next'
switchedPosition_alwaysNext(direction, position, total) == (position + 1) % total

\* direction === 'next' ? (position + 1) % total : (position - 1 + total) % total
switchedPosition(direction, position, total) ==
    IF direction = "next"
    THEN (position + 1) % total
    ELSE (position - 1 + total) % total

switchForkInMessages(msgs, forkEntry, forkMessageId, direction) ==
    LET forkMessageIndex == FindIndexById(msgs, forkMessageId)
        currentTail == SliceFrom(msgs, forkMessageIndex + 1)
        currentPosition == forkEntry.position
        isCurrentBranchEmpty == Len(currentTail) = 0
        updatedLists ==
            IF isCurrentBranchEmpty
            THEN WithoutIndex(forkEntry.lists, currentPosition)
            ELSE forkEntry.lists
        adjustedCurrentPosition ==
            IF isCurrentBranchEmpty /\ currentPosition >= Len(updatedLists)
            THEN Len(updatedLists) - 1
            ELSE currentPosition
        total == Len(updatedLists)
        newPosition == switchedPosition(direction, adjustedCurrentPosition, total)
        branchMessages == MessagesAt(updatedLists, newPosition)
        finalLists ==
            [k \in 1..total |->
                IF /\ ~isCurrentBranchEmpty
                   /\ k - 1 = adjustedCurrentPosition
                   /\ adjustedCurrentPosition # newPosition
                THEN [updatedLists[k] EXCEPT !.messages = currentTail]
                ELSE IF k - 1 = newPosition
                THEN clearedSlot(updatedLists[k])
                ELSE updatedLists[k]]
    IN  IF forkMessageIndex = 0
        THEN NoTransform
        ELSE IF isCurrentBranchEmpty /\ Len(updatedLists) <= 1
        THEN Transformed(Take(msgs, forkMessageIndex) \o MessagesAt(updatedLists, 0),
                         NoEntry)
        ELSE Transformed(Take(msgs, forkMessageIndex) \o branchMessages,
                         ForkEntry(newPosition, finalLists))

\* mutant: an entry is switched whatever the number of its branches
tooFewBranches_never(forkEntry) == FALSE

\* forkEntry.lists.length <= 1
tooFewBranches(forkEntry) == Len(forkEntry.lists) <= 1

buildSwitchForkPatch(session, forkMessageId, direction) ==
    LET hash == session.messageForksHash
    IN  IF forkMessageId \notin DOMAIN hash
        THEN session
        ELSE IF tooFewBranches(hash[forkMessageId])
        THEN session
        ELSE applyForkTransform(session, forkMessageId,
                switchForkInMessages(session.messages, hash[forkMessageId],
                                     forkMessageId, direction),
                [t \in 1..Len(session.threads) |->
                    switchForkInMessages(session.threads[t].messages, hash[forkMessageId],
                                         forkMessageId, direction)])

switchForkInMessagesToPosition(msgs, forkEntry, forkMessageId, targetPosition) ==
    LET forkMessageIndex == FindIndexById(msgs, forkMessageId)
        currentTail == SliceFrom(msgs, forkMessageIndex + 1)
        currentPosition == forkEntry.position
        branchMessages == MessagesAt(forkEntry.lists, targetPosition)
        finalLists ==
            [k \in 1..Len(forkEntry.lists) |->
                IF k - 1 = currentPosition /\ currentPosition # targetPosition
                THEN [forkEntry.lists[k] EXCEPT !.messages = currentTail]
                ELSE IF k - 1 = targetPosition
                THEN clearedSlot(forkEntry.lists[k])
                ELSE forkEntry.lists[k]]
    IN  IF forkMessageIndex = 0
        THEN NoTransform
        ELSE IF targetPosition < 0 \/ targetPosition >= Len(forkEntry.lists)
        THEN NoTransform
        ELSE Transformed(Take(msgs, forkMessageIndex) \o branchMessages,
                         ForkEntry(targetPosition, finalLists))

\* the updater of switchForkToPosition
switchForkToPositionPatch(session, forkMessageId, targetPosition) ==
    LET hash == session.messageForksHash
    IN  IF forkMessageId \notin DOMAIN hash
        THEN session
        ELSE IF targetPosition = hash[forkMessageId].position
        THEN session
        ELSE applyForkTransform(session, forkMessageId,
                switchForkInMessagesToPosition(session.messages, hash[forkMessageId],
                                               forkMessageId, targetPosition),
                [t \in 1..Len(session.threads) |->
                    switchForkInMessagesToPosition(session.threads[t].messages,
                                                   hash[forkMessageId], forkMessageId,
                                                   targetPosition)])

\* mutant: an empty tail is forked like any other
nothingToBackup_never(backupMessages) == FALSE

\* backupMessages.length === 0
nothingToBackup(backupMessages) == Len(backupMessages) = 0

\* the transform of buildCreateForkPatch on one timeline
createForkTransform(msgs, forkEntry, forkMessageId, storedListId, newBranchId) ==
    LET forkMessageIndex == FindIndexById(msgs, forkMessageId)
        backupMessages == SliceFrom(msgs, forkMessageIndex + 1)
        lists ==
            [k \in 1..Len(forkEntry.lists) |->
                IF k - 1 = forkEntry.position
                THEN ForkList(storedListId, backupMessages)
                ELSE forkEntry.lists[k]]
        nextPosition == Len(lists)
    IN  IF forkMessageIndex = 0
        THEN NoTransform
        ELSE IF nothingToBackup(backupMessages)
        THEN NoTransform
        ELSE Transformed(Take(msgs, forkMessageIndex),
                         ForkEntry(nextPosition,
                                   Append(lists, ForkList(newBranchId, <<>>))))

buildCreateForkPatch(session, forkMessageId) ==
    LET hash == session.messageForksHash
        forkEntry ==
            IF forkMessageId \in DOMAIN hash
            THEN hash[forkMessageId]
            ELSE ForkEntry(0, <<ForkList(NewListId, <<>>)>>)
        storedListId == NewListId
        newBranchId == NewListId
    IN  applyForkTransform(session, forkMessageId,
            createForkTransform(session.messages, forkEntry, forkMessageId,
                                storedListId, newBranchId),
            [t \in 1..Len(session.threads) |->
                createForkTransform(session.threads[t].messages, forkEntry,
                                    forkMessageId, storedListId, newBranchId)])

\* mutant: the position is kept when the live branch is removed
nextPositionAfterDelete_kept(position, remaining) == position

\* Math.min(forkEntry.position, remainingLists.length - 1)
nextPositionAfterDelete(position, remaining) ==
    IF position <= remaining - 1 THEN position ELSE remaining - 1

\* the transform of buildDeleteForkPatch on one timeline
deleteForkTransform(msgs, forkEntry, forkMessageId) ==
    LET forkMessageIndex == FindIndexById(msgs, forkMessageId)
        trimmedMessages == Take(msgs, forkMessageIndex)
        remainingLists == WithoutIndex(forkEntry.lists, forkEntry.position)
        nextPosition == nextPositionAfterDelete(forkEntry.position, Len(remainingLists))
        carryMessages == MessagesAt(remainingLists, nextPosition)
        updatedLists ==
            [k \in 1..Len(remainingLists) |->
                IF k - 1 = nextPosition
                THEN clearedSlot(remainingLists[k])
                ELSE remainingLists[k]]
    IN  IF forkMessageIndex = 0
        THEN NoTransform
        ELSE IF Len(remainingLists) = 0
        THEN Transformed(trimmedMessages, NoEntry)
        ELSE Transformed(trimmedMessages \o carryMessages,
                         ForkEntry(nextPosition, updatedLists))

buildDeleteForkPatch(session, forkMessageId) ==
    LET hash == session.messageForksHash
    IN  IF forkMessageId \notin DOMAIN hash
        THEN session
        ELSE applyForkTransform(session, forkMessageId,
                deleteForkTransform(session.messages, hash[forkMessageId], forkMessageId),
                [t \in 1..Len(session.threads) |->
                    deleteForkTransform(session.threads[t].messages, hash[forkMessageId],
                                        forkMessageId)])

\* the transform of buildExpandForkPatch on one timeline
expandForkTransform(msgs, forkEntry, forkMessageId) ==
    LET forkMessageIndex == FindIndexById(msgs, forkMessageId)
        mergedMessages == FlatMessages(forkEntry.lists)
    IN  IF forkMessageIndex = 0
        THEN NoTransform
        ELSE IF Len(mergedMessages) = 0
        THEN Transformed(msgs, NoEntry)
        ELSE Transformed(msgs \o mergedMessages, NoEntry)

buildExpandForkPatch(session, forkMessageId) ==
    LET hash == session.messageForksHash
    IN  IF forkMessageId \notin DOMAIN hash
        THEN session
        ELSE applyForkTransform(session, forkMessageId,
                expandForkTransform(session.messages, hash[forkMessageId], forkMessageId),
                [t \in 1..Len(session.threads) |->
                    expandForkTransform(session.threads[t].messages, hash[forkMessageId],
                                        forkMessageId)])

\* chatStore.updateSessionWithMessages(sessionId, updater): the store holds
\* what the updater returned
Updated(session, op, forkMessageId) ==
    /\ messages' = session.messages
    /\ threads' = session.threads
    /\ messageForksHash' = session.messageForksHash
    /\ lastForkOp' = [op |-> op, anchor |-> forkMessageId]
    /\ UNCHANGED <<compactionPoints, highlightContextRoles, sessionExists,
                   modelConfigured, contextVars, compactionVars, tokenVars, threadVars>>

createNewFork(forkMessageId) ==
    /\ sessionExists
    /\ forkMessageId \in DOMAIN messageForksHash =>
            Len(messageForksHash[forkMessageId].lists) < MaxBranches
    /\ Updated(buildCreateForkPatch(Session, forkMessageId), "createNewFork", forkMessageId)

switchFork(forkMessageId, direction) ==
    /\ sessionExists
    /\ Updated(buildSwitchForkPatch(Session, forkMessageId, direction), "switchFork", forkMessageId)

switchForkToPosition(forkMessageId, targetPosition) ==
    /\ sessionExists
    /\ Updated(switchForkToPositionPatch(Session, forkMessageId, targetPosition),
               "switchForkToPosition", forkMessageId)

deleteFork(forkMessageId) ==
    /\ sessionExists
    /\ Updated(buildDeleteForkPatch(Session, forkMessageId), "deleteFork", forkMessageId)

expandFork(forkMessageId) ==
    /\ sessionExists
    /\ Updated(buildExpandForkPatch(Session, forkMessageId), "expandFork", forkMessageId)

\* the user sends a message on the live timeline (insertMessage)
ForkAppendMessage ==
    /\ sessionExists
    /\ nextId <= MaxForkId
    /\ messages' = Append(messages, Msg(nextId, "user", FALSE, FALSE, FALSE))
    /\ nextId' = nextId + 1
    /\ UNCHANGED <<compactionPoints, highlightContextRoles, sessionExists,
                   modelConfigured, contextVars, lastForkOp, tokenVars, threadVars, threads, messageForksHash,
                   ongoingCompactions, uiState, pc, result, snapshot, pending,
                   summarizerCalls, options, now>>

\* the session after "new thread": the timeline is archived with its (empty)
\* fork map and the live timeline holds a new system prompt
ArchivedThread ==
    [id |-> 1, messages |-> InitialTimeline, messageForksHash |-> NoForks]

NewSystemPrompt == Msg(FirstFreshId, "system", FALSE, FALSE, FALSE)

\* every message id of the session, and one that no message carries
AnchorIds == IdSet(InitialTimeline) \cup (FirstFreshId..MaxForkId) \cup {NoId}

ForkInit ==
    /\ compactionPoints = <<>>
    /\ highlightContextRoles = NoFilter
    /\ sessionExists = TRUE
    /\ modelConfigured = TRUE
    /\ context = <<>>
    /\ built = "none"
    /\ ongoingCompactions = {}
    /\ uiState = UIState("idle", NoError, "")
    /\ pc = [p \in Calls |-> "idle"]
    /\ result = [p \in Calls |-> NoResult]
    /\ snapshot = [p \in Calls |-> <<>>]
    /\ pending = [p \in Calls |-> NoPending]
    /\ summarizerCalls = [p \in Calls |-> 0]
    /\ options = [p \in Calls |-> NoId]
    /\ now = 1
    /\ messageForksHash = NoForks
    /\ lastForkOp = NoForkOp
    /\ TokensIdle
    /\ ThreadsIdle
    /\ \/ /\ messages = InitialTimeline
          /\ threads = <<>>
          /\ nextId = FirstFreshId
       \/ /\ messages = <<NewSystemPrompt>>
          /\ threads = <<ArchivedThread>>
          /\ nextId = FirstFreshId + 1

ForkNext ==
    \/ \E a \in AnchorIds : createNewFork(a)
    \/ \E a \in AnchorIds, direction \in ForkDirections : switchFork(a, direction)
    \/ \E a \in AnchorIds, targetPosition \in -1..MaxBranches :
            switchForkToPosition(a, targetPosition)
    \/ \E a \in AnchorIds : deleteFork(a)
    \/ \E a \in AnchorIds : expandFork(a)
    \/ ForkAppendMessage
    \/ RemoveMessage

SpecFork == ForkInit /\ [][ForkNext]_vars

-----------------------------------------------------------------------------
(* Context-Token Cache and needsCompaction *)

MaxTokens == 2       \* the greatest token total of a context

\* checkOverflow (./compaction-detector): tokens > contextWindow * compactionThreshold
OverflowLimit == 1

TokenTotals == {0, MaxTokens}

\* mergedSettings.maxContextMessageCount: undefined, or a count
MessageCounts == {NoLimit, 1}

SettingsSpace ==
    [sessionAutoCompaction : Toggles,
     globalAutoCompaction : Toggles,
     maxContextMessageCount : MessageCounts,
     tokenizerType : TokenizerTypes]

\* mutant: the session-level setting is not looked at
isAutoCompactionEnabled_globalOnly(sessionAutoCompaction, globalAutoCompaction) ==
    globalAutoCompaction # "off"

isAutoCompactionEnabled(sessionAutoCompaction, globalAutoCompaction) ==
    IF sessionAutoCompaction # "undefined"
    THEN sessionAutoCompaction = "on"
    ELSE IF globalAutoCompaction # "undefined"
    THEN globalAutoCompaction = "on"
    ELSE TRUE

\* mutant: the boundary of the point listed last
getLatestCompactionBoundaryId_lastListed(cps) ==
    IF Len(cps) = 0 THEN NoId ELSE cps[Len(cps)].boundaryMessageId

\* the reduce starts from undefined: (latest?.createdAt ?? 0); null when the
\* list is empty or no point is later than 0
getLatestCompactionBoundaryId(cps) ==
    IF Len(cps) = 0 THEN NoId ELSE ReduceLatest(cps, 1, NoPoint).boundaryMessageId

\* mutant: the key leaves maxContextMessageCount out
getContextTokensCacheKey_withoutCount(params) ==
    <<"context-tokens", params.sessionId, NoLimit, params.latestContextMessageId,
      params.latestCompactionBoundaryId, params.tokenizerType>>

getContextTokensCacheKey(params) ==
    <<"context-tokens", params.sessionId, params.maxContextMessageCount,
      params.latestContextMessageId, params.latestCompactionBoundaryId,
      params.tokenizerType>>

\* contextMessages[contextMessages.length - 1]?.id ?? null
LastIdOf(msgs) == IF Len(msgs) = 0 THEN NoId ELSE msgs[Len(msgs)].id

\* the parameters of the key, as needsCompaction and useContextTokens build them
CacheKeyParams(sessionId, msgs, cps, contextRoles, s) ==
    [sessionId |-> sessionId,
     maxContextMessageCount |-> s.maxContextMessageCount,
     latestContextMessageId |->
        LastIdOf(getContextMessagesForTokenEstimation(msgs, cps, contextRoles,
                                                      s.maxContextMessageCount)),
     latestCompactionBoundaryId |-> getLatestCompactionBoundaryId(cps),
     tokenizerType |-> s.tokenizerType]

\* the key of the session in its current state
CurrentCacheKey ==
    getContextTokensCacheKey(
        CacheKeyParams(SessionId, messages, compactionPoints, highlightContextRoles,
                       settings))

\* ContextTokensCacheValue; the timestamp is not read
CacheEntry(contextTokens, messageCount) ==
    [contextTokens |-> contextTokens, messageCount |-> messageCount]

\* queryClient.getQueryData(key) is defined
CacheHit(cache, key) == key \in DOMAIN cache

\* mutant: the entry is not stored
setQueryData_notStored(cache, key, entry) == cache

\* queryClient.setQueryData(key, entry)
setQueryData(cache, key, entry) ==
    [k \in DOMAIN cache \cup {key} |-> IF k = key THEN entry ELSE cache[k]]

checkOverflow(tokens) == tokens > OverflowLimit

NoCount == -1        \* a message whose token count has not been calculated

\* the token counts known for the messages msgs: every assignment of no
\* count, of one token or of MaxTokens tokens to each of them
KnownTokenCounts(msgs) == [IdSet(msgs) -> {NoCount, 1, MaxTokens}]

\* sumCachedTokensFromMessages (../token): the sum of the token counts that
\* are known for the messages; a message without a count adds nothing
RECURSIVE sumCachedTokensFromMessages(_, _)
sumCachedTokensFromMessages(msgs, counts) ==
    IF Len(msgs) = 0 THEN 0
    ELSE (IF counts[msgs[1].id] = NoCount THEN 0 ELSE counts[msgs[1].id])
            + sumCachedTokensFromMessages(Tail(msgs), counts)

\* needsCompaction(sessionId) on the session found (or not) in the store;
\* estimatedTokens is what sumCachedTokensFromMessages gives on a miss.
\* The result and the cache it leaves.
needsCompaction(found, modelId, msgs, cps, contextRoles, s, cache, estimatedTokens) ==
    LET key == getContextTokensCacheKey(
                    CacheKeyParams(SessionId, msgs, cps, contextRoles, s))
        contextMessages == getContextMessagesForTokenEstimation(
                                msgs, cps, contextRoles, s.maxContextMessageCount)
    IN  IF ~found
        THEN [value |-> FALSE, cache |-> cache]
        ELSE IF ~isAutoCompactionEnabled(s.sessionAutoCompaction, s.globalAutoCompaction)
        THEN [value |-> FALSE, cache |-> cache]
        ELSE IF ~modelId
        THEN [value |-> FALSE, cache |-> cache]
        ELSE IF ~CacheHit(cache, key)
        THEN [value |-> checkOverflow(estimatedTokens),
              cache |-> setQueryData(cache, key,
                                     CacheEntry(estimatedTokens, Len(contextMessages)))]
        ELSE [value |-> checkOverflow(cache[key].contextTokens), cache |-> cache]

\* a call of needsCompaction: what it saw and what it returned
NeedsCompaction(estimatedTokens) ==
    LET call == needsCompaction(sessionExists, modelConfigured, messages,
                                compactionPoints, highlightContextRoles, settings,
                                queryCache, estimatedTokens)
    IN  /\ needs' = [value |-> call.value,
                     enabled |-> isAutoCompactionEnabled(settings.sessionAutoCompaction,
                                                         settings.globalAutoCompaction),
                     called |-> TRUE]
        /\ queryCache' = call.cache
        /\ writtenFor' =
                IF call.cache # queryCache
                THEN setQueryData(writtenFor, CurrentCacheKey,
                        Ids(getContextMessagesForTokenEstimation(
                                messages, compactionPoints, highlightContextRoles,
                                settings.maxContextMessageCount)))
                ELSE writtenFor
        /\ UNCHANGED <<sessionVars, contextVars, compactionVars, lastForkOp, threadVars, settings>>

\* useContextTokens: a finished calculation is written under the current key
StoreContextTokens(contextTokens) ==
    /\ sessionExists
    /\ queryCache' =
            setQueryData(queryCache, CurrentCacheKey,
                CacheEntry(contextTokens,
                    Len(getContextMessagesForTokenEstimation(
                            messages, compactionPoints, highlightContextRoles,
                            settings.maxContextMessageCount))))
    /\ writtenFor' =
            setQueryData(writtenFor, CurrentCacheKey,
                Ids(getContextMessagesForTokenEstimation(
                        messages, compactionPoints, highlightContextRoles,
                        settings.maxContextMessageCount)))
    /\ UNCHANGED <<sessionVars, contextVars, compactionVars, lastForkOp, threadVars, settings, needs>>

\* the user changes a setting of the session or of the application
UpdateSettings(s) ==
    /\ s # settings
    /\ settings' = s
    /\ UNCHANGED <<sessionVars, contextVars, compactionVars, lastForkOp, threadVars, queryCache, needs,
                   writtenFor>>

TokensInit ==
    /\ messages = InitialTimeline
    /\ compactionPoints = <<>>
    /\ highlightContextRoles = NoFilter
    /\ sessionExists \in BOOLEAN
    /\ modelConfigured \in BOOLEAN
    /\ context = <<>>
    /\ built = "none"
    /\ CompactionIdle
    /\ threads = <<>>
    /\ messageForksHash = NoForks
    /\ lastForkOp = NoForkOp
    /\ TokensIdle
    /\ ThreadsIdle

TokensNext ==
    \/ \E estimatedTokens \in TokenTotals : NeedsCompaction(estimatedTokens)
    \/ \E contextTokens \in TokenTotals : StoreContextTokens(contextTokens)
    \/ \E s \in SettingsSpace : UpdateSettings(s)

SpecTokens == TokensInit /\ [][TokensNext]_vars

-----------------------------------------------------------------------------
(* Thread Archive *)

MaxThreads == 2      \* archived threads of a session
MaxThreadId == 6     \* the last id uuidv4() gives out

\* the fields of the session the thread operations read and write
FullSession ==
    [messages |-> messages, threads |-> threads,
     messageForksHash |-> messageForksHash, compactionPoints |-> compactionPoints]

\* SessionThread as the archive operations build it: id, messages and
\* messageForksHash (name and createdAt are not read); compactionPoints is
\* never set
SessionThread(id, msgs, forks) ==
    [id |-> id, messages |-> msgs, messageForksHash |-> forks]

\* thread.compactionPoints of a thread of the session
ThreadCompactionPoints(thread) == <<>>

ThreadIds(session) == {session.threads[t].id : t \in 1..Len(session.threads)}

\* session.threads.find((h) => h.id === threadId): its index, 0 if none
FindThread(session, threadId) ==
    IF threadId \in ThreadIds(session)
    THEN CHOOSE t \in 1..Len(session.threads) :
            /\ session.threads[t].id = threadId
            /\ \A u \in 1..(t - 1) : session.threads[u].id # threadId
    ELSE 0

\* session.threads.filter((t) => t.id !== threadId)
RECURSIVE WithoutThread(_, _)
WithoutThread(ths, threadId) ==
    IF Len(ths) = 0 THEN <<>>
    ELSE IF ths[1].id = threadId THEN WithoutThread(Tail(ths), threadId)
    ELSE <<ths[1]>> \o WithoutThread(Tail(ths), threadId)

\* the object switchThread writes; id is the uuid of the new thread
switchThreadPatch(session, threadId, id) ==
    LET target == FindThread(session, threadId)
    IN  IF target = 0
        THEN session
        ELSE [session EXCEPT
                !.threads = Append(WithoutThread(session.threads, threadId),
                                   SessionThread(id, session.messages,
                                                 session.messageForksHash)),
                !.messages = session.threads[target].messages,
                !.messageForksHash = session.threads[target].messageForksHash]

\* the object refreshContextAndCreateNewThread writes; the system prompt is a
\* new message (the text of the old one, or the default prompt)
refreshContextPatch(session, id) ==
    [session EXCEPT
        !.threads = Append(session.threads,
                           SessionThread(id, session.messages, session.messageForksHash)),
        !.messages = <<Msg(id + 1, "system", FALSE, FALSE, FALSE)>>]

\* session.messages.slice(0, boundaryIndex + 1).map((m) => ({ ...m, id: uuidv4() }))
FreshCopies(msgs, count, id) ==
    [k \in 1..count |-> [msgs[k] EXCEPT !.id = id + k]]

\* the object newThreadFromHere writes
newThreadFromHerePatch(session, upToMessageId, id) ==
    LET boundaryIndex == FindIndexById(session.messages, upToMessageId)
    IN  IF boundaryIndex = 0
        THEN session
        ELSE [session EXCEPT
                !.threads = Append(session.threads,
                                   SessionThread(id, session.messages,
                                                 session.messageForksHash)),
                !.messages = FreshCopies(session.messages, boundaryIndex, id),
                !.messageForksHash = NoForks,
                !.compactionPoints = <<>>]

\* the object compressAndCreateThread writes: the system prompt, if any, and
\* the summary as a user message
compressPatch(session, id) ==
    [session EXCEPT
        !.threads = Append(session.threads,
                           SessionThread(id, session.messages, session.messageForksHash)),
        !.messages =
            (IF FirstSystemIndex(session.messages) # 0
             THEN <<Msg(id + 1, "system", FALSE, FALSE, FALSE)>>
             ELSE <<>>) \o <<Msg(id + 2, "user", FALSE, FALSE, FALSE)>>,
        !.messageForksHash = NoForks]

\* the object removeCurrentThread writes
removeCurrentThreadPatch(session) ==
    IF Len(session.threads) > 0
    THEN [session EXCEPT
            !.messages = session.threads[Len(session.threads)].messages,
            !.threads = Take(session.threads, Len(session.threads) - 1)]
    ELSE [session EXCEPT
            !.messages =
                IF FirstSystemIndex(session.messages) # 0
                THEN <<session.messages[FirstSystemIndex(session.messages)]>>
                ELSE <<>>]

ThreadOps ==
    {"switchThread", "refreshContextAndCreateNewThread", "newThreadFromHere",
     "compressAndCreateThread", "removeThread", "removeCurrentThread"}

\* the operations that archive the live timeline
ArchiveOps ==
    {"refreshContextAndCreateNewThread", "newThreadFromHere", "compressAndCreateThread"}

\* the uuids an operation draws between its read and its write
IdsDrawn(op, read, arg) ==
    CASE op = "switchThread" -> IF FindThread(read, arg) = 0 THEN 0 ELSE 1
      [] op = "refreshContextAndCreateNewThread" -> 2
      [] op = "newThreadFromHere" ->
            IF FindIndexById(read.messages, arg) = 0 THEN 0
            ELSE 1 + FindIndexById(read.messages, arg)
      [] op = "compressAndCreateThread" -> 3
      [] OTHER -> 0

\* what chatStore.updateSession / updateSessionWithMessages leaves in the
\* store: the object or patch the operation built from the session it read,
\* merged over the store's current session.  Every operation but removeThread
\* passes a whole session object.
Written(op, arg, read, current, id) ==
    CASE op = "switchThread" -> switchThreadPatch(read, arg, id)
      [] op = "refreshContextAndCreateNewThread" -> refreshContextPatch(read, id)
      [] op = "newThreadFromHere" -> newThreadFromHerePatch(read, arg, id)
      [] op = "compressAndCreateThread" -> compressPatch(read, id)
      [] op = "removeCurrentThread" -> removeCurrentThreadPatch(read)
      [] op = "removeThread" ->
            [current EXCEPT !.threads = WithoutThread(read.threads, arg)]

\* an operation that returns before it writes
ReturnsEarly(op, arg, read) ==
    \/ op = "switchThread" /\ FindThread(read, arg) = 0
    \/ op = "newThreadFromHere" /\ FindIndexById(read.messages, arg) = 0

\* for (const m of session.messages) { m?.cancel?.() }: the messages the loop
\* of the operation visits, in the session it read.  switchThread returns
\* before its loop when the target is missing; removeThread and
\* removeCurrentThread have no loop.
MessagesCancelled(op, arg, read) ==
    CASE op = "switchThread" ->
            IF FindThread(read, arg) = 0 THEN {} ELSE IdSet(read.messages)
      [] op \in ArchiveOps -> IdSet(read.messages)
      [] OTHER -> {}

\* await chatStore.getSession(sessionId) of a thread operation resolves
ThreadOpRead(op, arg) ==
    /\ sessionExists
    /\ threadOp = NoThreadOp
    /\ threadOp' = [op |-> op, arg |-> arg, read |-> FullSession]
    /\ UNCHANGED <<sessionVars, contextVars, compactionVars, lastForkOp, tokenVars,
                   cancelled>>

\* the operation runs on from the session it read to its write, or returns
ThreadOpWrite ==
    /\ threadOp # NoThreadOp
    /\ LET op == threadOp.op
           arg == threadOp.arg
           read == threadOp.read
           written == Written(op, arg, read, FullSession, nextId)
       IN  /\ nextId + IdsDrawn(op, read, arg) - 1 <= MaxThreadId
           /\ op \in ArchiveOps => Len(read.threads) < MaxThreads
           /\ IF ReturnsEarly(op, arg, read)
              THEN UNCHANGED <<messages, threads, messageForksHash, compactionPoints>>
              ELSE /\ messages' = written.messages
                   /\ threads' = written.threads
                   /\ messageForksHash' = written.messageForksHash
                   /\ compactionPoints' = written.compactionPoints
           /\ nextId' = nextId + IdsDrawn(op, read, arg)
    /\ cancelled' = MessagesCancelled(threadOp.op, threadOp.arg, threadOp.read)
    /\ threadOp' = NoThreadOp
    /\ UNCHANGED <<highlightContextRoles, sessionExists, modelConfigured, contextVars,
                   lastForkOp, tokenVars, ongoingCompactions, uiState, pc, result,
                   snapshot, pending, summarizerCalls, options, now>>

\* a run of runCompaction on the live timeline with nothing in between, as it
\* leaves the session: the summary message and the new point
CompactionCommit ==
    /\ sessionExists
    /\ nextId <= MaxThreadId
    /\ LastNonSummaryIndex(messages) # 0
    /\ LET summaryMessage == Msg(nextId, "assistant", FALSE, TRUE, FALSE)
       IN  /\ messages' = Append(messages, summaryMessage)
           /\ compactionPoints' =
                Append(compactionPoints,
                       newCompactionPoint(summaryMessage,
                                          messages[LastNonSummaryIndex(messages)], now))
    /\ nextId' = nextId + 1
    /\ UNCHANGED <<highlightContextRoles, sessionExists, modelConfigured, contextVars,
                   lastForkOp, tokenVars, threadVars, threads, messageForksHash,
                   ongoingCompactions, uiState, pc, result, snapshot, pending,
                   summarizerCalls, options, now>>

\* the operations that are given a thread id or a message id
ThreadOpsWithArg == {"switchThread", "newThreadFromHere", "removeThread"}

\* the ids an operation can be given: every id, and one that nothing carries
ThreadArgs(op) ==
    IF op \in ThreadOpsWithArg THEN (1..MaxThreadId) \cup {NoId} ELSE {NoId}

\* the anchor of the fork operations: the message before the last one the
\* session starts with; one anchor keeps the state space small
ThreadAnchors == {InitialTimeline[Len(InitialTimeline) - 1].id}

ThreadsInit ==
    /\ messages = InitialTimeline
    /\ compactionPoints = <<>>
    /\ highlightContextRoles = NoFilter
    /\ sessionExists = TRUE
    /\ modelConfigured = TRUE
    /\ context = <<>>
    /\ built = "none"
    /\ ongoingCompactions = {}
    /\ uiState = UIState("idle", NoError, "")
    /\ pc = [p \in Calls |-> "idle"]
    /\ result = [p \in Calls |-> NoResult]
    /\ snapshot = [p \in Calls |-> <<>>]
    /\ pending = [p \in Calls |-> NoPending]
    /\ summarizerCalls = [p \in Calls |-> 0]
    /\ options = [p \in Calls |-> NoId]
    /\ now = 1
    /\ nextId = FirstFreshId
    /\ threads = <<>>
    /\ messageForksHash = NoForks
    /\ lastForkOp = NoForkOp
    /\ TokensIdle
    /\ ThreadsIdle

\* nothing has been committed since the thread operation in flight, if any,
\* read the session
StoreAsRead == threadOp # NoThreadOp => threadOp.read = FullSession

\* at most one update is committed between the read and the write of a thread
\* operation
ThreadsNext ==
    \/ \E op \in ThreadOps : \E arg \in ThreadArgs(op) : ThreadOpRead(op, arg)
    \/ ThreadOpWrite
    \/ StoreAsRead /\ CompactionCommit
    \/ StoreAsRead /\ \E a \in ThreadAnchors : createNewFork(a)
    \/ StoreAsRead /\ \E a \in ThreadAnchors, direction \in ForkDirections :
            switchFork(a, direction)
    \/ StoreAsRead /\ \E a \in ThreadAnchors : deleteFork(a)

SpecThreads == ThreadsInit /\ [][ThreadsNext]_vars

-----------------------------------------------------------------------------
(* Inputs of the context builder *)

Times == {1, 2}      \* createdAt values: equal and ordered timestamps

RoleFilters ==
    {NoFilter, OnlyRoles({"assistant"}), OnlyRoles({"user", "assistant"}),
     OnlyRoles({"system", "assistant"})}

\* the timelines of length n: message i carries id i
TimelinesOfLen(n) ==
    {[i \in 1..n |-> OfKind(i, ks[i])] : ks \in [1..n -> MsgKinds]}

SummaryIds(msgs) == {msgs[i].id : i \in {j \in 1..Len(msgs) : msgs[j].isSummary}}

\* A compaction point names a boundary message, or a message that is no
\* longer in the timeline, and the summary message written with it, or a
\* summary that is no longer in the timeline.
PointsOver(msgs) ==
    [boundaryMessageId : IdSet(msgs) \cup {NoId},
     summaryMessageId : SummaryIds(msgs) \cup {NoId},
     createdAt : Times]

PointListsOver(msgs) ==
    {<<>>} \cup {<<p>> : p \in PointsOver(msgs)}
           \cup {<<p, q>> : p \in PointsOver(msgs), q \in PointsOver(msgs)}

PointListsUpTo1(msgs) == {<<>>} \cup {<<p>> : p \in PointsOver(msgs)}

\* Inputs of buildContext without a role filter
ContextInit ==
    /\ \E n \in 0..MaxLen : messages \in TimelinesOfLen(n)
    /\ compactionPoints \in PointListsOver(messages)
    /\ highlightContextRoles = NoFilter
    /\ context = <<>>
    /\ built = "none"
    /\ SessionPresent
    /\ CompactionIdle

\* Inputs of the three derivations with a role filter configured
RoleFilterInit ==
    /\ \E n \in 0..MaxLen : messages \in TimelinesOfLen(n)
    /\ compactionPoints \in PointListsUpTo1(messages)
    /\ highlightContextRoles \in RoleFilters \ {NoFilter}
    /\ context = <<>>
    /\ built = "none"
    /\ SessionPresent
    /\ CompactionIdle

BuildContext ==
    /\ built = "none"
    /\ context' = buildContextForSession(messages, compactionPoints, highlightContextRoles)
    /\ built' = "ai"
    /\ UNCHANGED <<sessionVars, compactionVars, lastForkOp, tokenVars, threadVars>>

EstimationContext ==
    /\ built = "none"
    /\ context' = getContextMessagesForTokenEstimation(messages, compactionPoints,
                                                       highlightContextRoles, NoLimit)
    /\ built' = "tokens"
    /\ UNCHANGED <<sessionVars, compactionVars, lastForkOp, tokenVars, threadVars>>

GenerationContext ==
    /\ built = "none"
    /\ Len(messages) > 0
    /\ context' = genMessageContext(messages, compactionPoints,
                                    highlightContextRoles, NoLimit)
    /\ built' = "generation"
    /\ UNCHANGED <<sessionVars, compactionVars, lastForkOp, tokenVars, threadVars>>

SpecContext == ContextInit /\ [][BuildContext]_vars

RoleFilterNext == BuildContext \/ EstimationContext \/ GenerationContext

SpecRoleFilter == RoleFilterInit /\ [][RoleFilterNext]_vars

-----------------------------------------------------------------------------
(* Properties of the context builder *)

\* the non-generating messages of a timeline, in timeline order
NonGenerating(msgs) == SelectSeq(msgs, LAMBDA m : ~m.generating)

\* the latest point: the first listed among those with the greatest createdAt
LatestPoint(cps) ==
    cps[CHOOSE i \in 1..Len(cps) :
            /\ \A j \in 1..Len(cps) : cps[j].createdAt <= cps[i].createdAt
            /\ \A j \in 1..(i-1) : cps[j].createdAt < cps[i].createdAt]

\* a point's boundary is present: it is the id of a non-generating message
BoundaryPresent(msgs, cps) ==
    /\ Len(cps) > 0
    /\ \E i \in 1..Len(msgs) :
          msgs[i].id = LatestPoint(cps).boundaryMessageId /\ ~msgs[i].generating

\* the context a valid latest point prescribes: system, summary, tail
ExpectedCompactedContext(msgs, cps) ==
    LET p == LatestPoint(cps)
        b == CHOOSE i \in 1..Len(msgs) :
                 /\ msgs[i].id = p.boundaryMessageId
                 /\ ~msgs[i].generating
        tail == SelectSeq(SliceFrom(msgs, b + 1),
                          LAMBDA m : ~m.generating /\ ~m.isSummary)
        sumIx == {i \in 1..Len(msgs) :
                     msgs[i].id = p.summaryMessageId /\ ~msgs[i].generating}
        sum == IF sumIx = {} THEN <<>> ELSE <<msgs[CHOOSE i \in sumIx : TRUE]>>
        sysIx == {i \in 1..Len(msgs) : msgs[i].role = "system" /\ ~msgs[i].generating}
        first == CHOOSE i \in sysIx : \A j \in sysIx : i <= j
        sys == IF sysIx = {} \/ msgs[first].id \in IdSet(sum \o tail)
               THEN <<>> ELSE <<msgs[first]>>
    IN  sys \o sum \o tail

\* the tool-call cleanup changes nothing in msgs
NoOldToolRounds(msgs) == cleanToolCalls(msgs, keepToolCallRoundsDefault) = msgs

\* C7: with a latest compaction point whose boundary is present and no role
\* filter, buildContext returns the system message (put first unless the
\* result already holds it), then the summary message if it is still in the
\* timeline, then the non-generating non-summary messages strictly after the
\* boundary, in timeline order, and nothing else.
C7_CompactedContext ==
    (built = "ai" /\ ~highlightContextRoles.defined
        /\ BoundaryPresent(messages, compactionPoints))
    => LET expected == ExpectedCompactedContext(messages, compactionPoints)
       IN  /\ Ids(context) = Ids(expected)
           /\ NoOldToolRounds(expected) => context = expected

\* C7 witness: the first of two points is the latest, and the built context
\* is the re-inserted system message, the summary and a message after the
\* boundary
C7_Witness ==
    /\ built = "ai"
    /\ BoundaryPresent(messages, compactionPoints)
    /\ Len(compactionPoints) = 2
    /\ compactionPoints[1].createdAt > compactionPoints[2].createdAt
    /\ Len(context) = 3
    /\ context[1].role = "system"
    /\ context[2].isSummary
    /\ context[3].role = "user"

\* C8: with no compaction point and no role filter, buildContext returns the
\* messages that are not generating, in timeline order; no generating message
\* is in the result.
C8_FullContext ==
    (built = "ai" /\ ~highlightContextRoles.defined /\ compactionPoints = <<>>)
    => /\ Ids(context) = Ids(NonGenerating(messages))
       /\ NoOldToolRounds(NonGenerating(messages)) => context = NonGenerating(messages)
       /\ \A i \in 1..Len(context) : ~context[i].generating

\* C8 witness: a timeline with a generating message, built without points
C8_Witness ==
    /\ built = "ai"
    /\ compactionPoints = <<>>
    /\ \E i \in 1..Len(messages) : messages[i].generating
    /\ Len(context) = 2

\* the first system message among the non-generating messages, if any
HasSystemMessage(msgs) == \E i \in 1..Len(msgs) : msgs[i].role = "system" /\ ~msgs[i].generating

SystemMessageOf(msgs) ==
    msgs[CHOOSE i \in 1..Len(msgs) :
            /\ msgs[i].role = "system" /\ ~msgs[i].generating
            /\ \A j \in 1..(i-1) : ~(msgs[j].role = "system" /\ ~msgs[j].generating)]

\* the system message lies at or before the boundary and is not the summary:
\* the compacted tail does not hold it
SystemCutOff(msgs, cps) ==
    /\ BoundaryPresent(msgs, cps)
    /\ LET p == LatestPoint(cps)
           sysId == SystemMessageOf(msgs).id
       IN  /\ FindIndexById(msgs, sysId) <= FindIndexById(msgs, p.boundaryMessageId)
           /\ p.summaryMessageId # sysId

\* C10: without a role filter, whatever the compaction points (none, valid,
\* stale), the context of a timeline that has a completed system message
\* holds that system message, and holds it first when the compaction cut it off.
C10_SystemMessageKept ==
    (built = "ai" /\ ~highlightContextRoles.defined /\ HasSystemMessage(messages))
    => /\ SystemMessageOf(messages) \in {context[i] : i \in 1..Len(context)}
       /\ SystemCutOff(messages, compactionPoints)
            => context[1] = SystemMessageOf(messages)

\* C10 witness: the system message was cut off by the boundary and is first
C10_Witness ==
    /\ built = "ai"
    /\ HasSystemMessage(messages)
    /\ SystemCutOff(messages, compactionPoints)
    /\ FindIndexById(messages, SystemMessageOf(messages).id) > 1
    /\ Len(context) >= 2

HasUserMessage(msgs) == \E i \in 1..Len(msgs) : msgs[i].role = "user"

LastUserMessageOf(msgs) ==
    msgs[CHOOSE i \in 1..Len(msgs) :
            /\ msgs[i].role = "user"
            /\ \A j \in (i+1)..Len(msgs) : msgs[j].role # "user"]

ContextHolds(m) == \E i \in 1..Len(context) : context[i].id = m.id

GenerationKeepsSystemAndLastUser ==
    (built = "generation" /\ highlightContextRoles.defined)
    => /\ HasSystemMessage(messages) => ContextHolds(SystemMessageOf(messages))
       /\ HasUserMessage(messages) => ContextHolds(LastUserMessageOf(messages))


-----------------------------------------------------------------------------
(* Properties of the compaction orchestrator *)

\* every store read and write settles, and the summarizer answers
SpecCompactionLive ==
    /\ CompactionInit
    /\ [][CompactionNext]_vars
    /\ \A p \in Calls : WF_vars(CallStep(p))

InFlightCalls == {p \in Calls : pc[p] \in InFlight}

\* call p is issued in this step while another call holds the session
IssuedDuringAnother(p) ==
    /\ pc[p] = "idle"
    /\ pc'[p] # "idle"
    /\ InFlightCalls # {}

\* the step leaves the timeline and the compaction points as they were
SessionUntouched ==
    /\ messages' = messages
    /\ compactionPoints' = compactionPoints

Commits(p) ==
    /\ pc[p] = "updateSession"
    /\ pc'[p] = "done"
    /\ result'[p].compacted

SummaryAdded ==
    /\ Len(messages') = Len(messages) + 1
    /\ messages'[Len(messages')].isSummary
    /\ Take(messages', Len(messages)) = messages

PointAdded ==
    /\ Len(compactionPoints') = Len(compactionPoints) + 1
    /\ Take(compactionPoints', Len(compactionPoints)) = compactionPoints

\* the boundary a commit of call p must name: the last non-summary message of
\* the timeline the call read when it started
BoundaryAsRead(p) == snapshot[p][LastNonSummaryIndex(snapshot[p])].id

\* C4 (amended): a successful compaction appends, in one step of the store,
\* a new summary message to the live timeline and a new compaction point
\* that names that message and, as its boundary, the last non-summary message
\* of the timeline as the call read it when it started (which is the last
\* non-summary message of the live timeline when nothing was written in
\* between); no step adds the one without the other.
C4_AtomicCommitBoundaryAsRead ==
    [][/\ SummaryAdded <=> PointAdded
       /\ \A p \in Calls :
            Commits(p) =>
                /\ SummaryAdded
                /\ PointAdded
                /\ LET point == compactionPoints'[Len(compactionPoints')]
                       summary == messages'[Len(messages')]
                   IN  /\ point.summaryMessageId = summary.id
                       /\ result'[p].summaryMessageId = summary.id
                       /\ summary.id \notin IdSet(messages)
                       /\ point.boundaryMessageId = BoundaryAsRead(p)
                       /\ messages = snapshot[p] =>
                            point.boundaryMessageId =
                                messages[LastNonSummaryIndex(messages)].id]_vars

\* a commit whose boundary is not the last non-summary message of the live
\* timeline: a message was sent while the summarizer was running
C4_Witness ==
    /\ Len(compactionPoints) = 1
    /\ Len(messages) = Len(InitialTimeline) + 2
    /\ messages[Len(messages)].isSummary
    /\ compactionPoints[1].summaryMessageId = messages[Len(messages)].id
    /\ compactionPoints[1].boundaryMessageId = InitialTimeline[Len(InitialTimeline)].id
    /\ messages[Len(messages) - 1].role = "user"
    /\ messages[Len(messages) - 1].id > compactionPoints[1].boundaryMessageId

\* C4 as stated: the boundary of the committed point is the last non-summary
\* message of the timeline the summary is appended to
C4_BoundaryIsLastOfTimeline ==
    [][\A p \in Calls :
            Commits(p) =>
                /\ SummaryAdded
                /\ PointAdded
                /\ LastNonSummaryIndex(messages) # 0
                /\ compactionPoints'[Len(compactionPoints')].boundaryMessageId =
                        messages[LastNonSummaryIndex(messages)].id]_vars

\* C5: the session is marked in flight exactly while an admitted call has not
\* returned, whichever way the call returns; every admitted call does return
\* and the mark is then gone, so that a later call is admitted again.
C5_MarkerReleased ==
    /\ [](SessionId \in ongoingCompactions <=> InFlightCalls # {})
    /\ \A p \in Calls :
            (pc[p] \in InFlight) ~> (pc[p] = "done" /\ SessionId \notin ongoingCompactions)
    /\ [][\A p \in Calls :
            (pc[p] = "idle" /\ pc'[p] # "idle" /\ InFlightCalls = {}) =>
                pc'[p] = "getSession"]_vars

\* a call is admitted after an earlier admitted call has failed
C5_Witness ==
    \E p \in Calls, q \in Calls :
        /\ pc[p] = "done"
        /\ ~result[p].success
        /\ summarizerCalls[p] = 1
        /\ pc[q] \in InFlight
        /\ SessionId \in ongoingCompactions

SummarizationFailures == {"summarizer error", "Failed to generate summary"}

\* C6: when the summarizer reports a failure, or returns no summary, the call
\* returns success = false and compacted = false with the error, the UI state
\* becomes 'failed' with that error, and no step of the call, from its start
\* to this return, has written the timeline or the compaction points.
C6_SummarizationFailure ==
    [][\A p \in Calls :
        /\ (/\ pc[p] = "summarizing"
            /\ pc'[p] = "done"
            /\ result'[p].error \in SummarizationFailures) =>
                /\ result'[p].success = FALSE
                /\ result'[p].compacted = FALSE
                /\ result'[p].summaryMessageId = NoId
                /\ uiState'.status = "failed"
                /\ uiState'.error = result'[p].error
                /\ uiState'.streamingText = ""
        /\ (pc'[p] # pc[p] /\ ~result'[p].compacted) => SessionUntouched]_vars

C6_Witness ==
    \E p \in Calls :
        /\ pc[p] = "done"
        /\ result[p] = Failure("Failed to generate summary")
        /\ summarizerCalls[p] = 1
        /\ uiState.status = "failed"
        /\ compactionPoints = <<>>


-----------------------------------------------------------------------------
(* Properties of the Fork Engine *)

\* the timeline that holds the anchor: the live one, else the first thread's
\* that has it, else none
TimelineOfAnchor(a) ==
    IF a \in IdSet(messages)
    THEN messages
    ELSE IF \E t \in 1..Len(threads) : a \in IdSet(threads[t].messages)
    THEN threads[CHOOSE t \in 1..Len(threads) :
                    /\ a \in IdSet(threads[t].messages)
                    /\ \A u \in 1..(t - 1) : a \notin IdSet(threads[u].messages)].messages
    ELSE <<>>

StoredIds(forkEntry) ==
    UNION {IdSet(forkEntry.lists[k].messages) : k \in 1..Len(forkEntry.lists)}

ValidPosition(forkEntry) ==
    /\ Len(forkEntry.lists) >= 1
    /\ forkEntry.position >= 0
    /\ forkEntry.position < Len(forkEntry.lists)

\* C2: every fork entry whose anchor is in a timeline stores its live branch
\* empty, lists[position].messages = [], and no message id is both inline in
\* that timeline and in a branch stored in the entry.
C2_LiveBranchOnlyInline ==
    \A a \in DOMAIN messageForksHash :
        TimelineOfAnchor(a) # <<>> =>
            /\ ValidPosition(messageForksHash[a])
            /\ messageForksHash[a].lists[messageForksHash[a].position + 1].messages = <<>>
            /\ StoredIds(messageForksHash[a]) \cap IdSet(TimelineOfAnchor(a)) = {}

\* a switch has put a stored branch inline and stored the previous live tail
C2_Witness ==
    \E a \in DOMAIN messageForksHash :
        /\ lastForkOp = [op |-> "switchFork", anchor |-> a]
        /\ a \in IdSet(messages)
        /\ FindIndexById(messages, a) < Len(messages)
        /\ Len(messageForksHash[a].lists) >= 2
        /\ StoredIds(messageForksHash[a]) # {}

\* C3: every entry of the fork map has at least one branch and a position
\* that is an index of its branches.
C3_PositionInRange ==
    \A a \in DOMAIN messageForksHash : ValidPosition(messageForksHash[a])

\* deleteFork removed the last branch of three, or the middle one
C3_Witness ==
    \E a \in DOMAIN messageForksHash :
        /\ lastForkOp = [op |-> "deleteFork", anchor |-> a]
        /\ a \in IdSet(messages)
        /\ Len(messageForksHash[a].lists) = 2
        /\ messageForksHash[a].position = 1


\* the live tail after anchor a in the timeline that holds it
LiveTail(session, a) ==
    IF a \in IdSet(session.messages)
    THEN SliceFrom(session.messages, FindIndexById(session.messages, a) + 1)
    ELSE IF \E t \in 1..Len(session.threads) : a \in IdSet(session.threads[t].messages)
    THEN LET t == CHOOSE u \in 1..Len(session.threads) :
                    /\ a \in IdSet(session.threads[u].messages)
                    /\ \A v \in 1..(u - 1) : a \notin IdSet(session.threads[v].messages)
         IN  SliceFrom(session.threads[t].messages,
                       FindIndexById(session.threads[t].messages, a) + 1)
    ELSE <<>>

AnchorInTimeline(session, a) ==
    \/ a \in IdSet(session.messages)
    \/ \E t \in 1..Len(session.threads) : a \in IdSet(session.threads[t].messages)

\* switchFork(a, next) meets no empty tail, before or after the switch
SwitchRoundTripCase(a) ==
    /\ a \in DOMAIN messageForksHash
    /\ AnchorInTimeline(Session, a)
    /\ Len(messageForksHash[a].lists) >= 2
    /\ LiveTail(Session, a) # <<>>
    /\ LiveTail(buildSwitchForkPatch(Session, a, "next"), a) # <<>>

\* C11: on an entry with at least two branches and a non-empty live tail,
\* switchFork(anchor, next) followed by switchFork(anchor, prev) gives back
\* the timelines, the position and the stored branches, when the branch
\* switched to is not empty.
C11_SwitchNextPrevRestores ==
    \A a \in AnchorIds :
        SwitchRoundTripCase(a) =>
            buildSwitchForkPatch(buildSwitchForkPatch(Session, a, "next"), a, "prev")
                = Session

\* a switch has been made on an entry of three branches from which the round
\* trip next, prev meets no empty branch
C11_Witness ==
    \E a \in AnchorIds :
        /\ SwitchRoundTripCase(a)
        /\ lastForkOp = [op |-> "switchFork", anchor |-> a]
        /\ Len(messageForksHash[a].lists) = 3
        /\ buildSwitchForkPatch(Session, a, "next") # Session


\* C12: createNewFork on an anchor that is the last message of its timeline
\* returns the session as it is: the same timelines and the same fork map, so
\* no entry is created or modified.
C12_CreateOnEmptyTailIsNoOp ==
    \A a \in AnchorIds :
        (AnchorInTimeline(Session, a) /\ LiveTail(Session, a) = <<>>) =>
            buildCreateForkPatch(Session, a) = Session

\* createNewFork was called on the last message of the live timeline, which
\* has no entry: had the call forked, the anchor would have one
C12_Witness ==
    \E a \in AnchorIds :
        /\ lastForkOp = [op |-> "createNewFork", anchor |-> a]
        /\ Len(messages) > 0
        /\ messages[Len(messages)].id = a
        /\ a \notin DOMAIN messageForksHash


\* the timeline of the session that holds anchor a: the live one, else the
\* first thread's that has it, else none
TimelineIn(session, a) ==
    IF a \in IdSet(session.messages)
    THEN session.messages
    ELSE IF \E t \in 1..Len(session.threads) : a \in IdSet(session.threads[t].messages)
    THEN session.threads[CHOOSE t \in 1..Len(session.threads) :
            /\ a \in IdSet(session.threads[t].messages)
            /\ \A u \in 1..(t - 1) : a \notin IdSet(session.threads[u].messages)].messages
    ELSE <<>>

\* the timeline that holds a, up to a
UpToAnchor(session, a) ==
    Take(TimelineIn(session, a), FindIndexById(TimelineIn(session, a), a))

\* what deleteFork(a) must make of an entry and of the anchor's timeline
DeleteForkExpected(a, after) ==
    LET forkEntry == messageForksHash[a]
        n == Len(forkEntry.lists)
        \* the branches other than the live one, in order
        kept == [k \in 1..(n - 1) |->
                    IF k <= forkEntry.position THEN forkEntry.lists[k]
                    ELSE forkEntry.lists[k + 1]]
        position == IF forkEntry.position <= n - 2 THEN forkEntry.position ELSE n - 2
    IN  IF n = 1
        THEN /\ a \notin DOMAIN after.messageForksHash
             /\ TimelineIn(after, a) = UpToAnchor(Session, a)
        ELSE /\ a \in DOMAIN after.messageForksHash
             /\ after.messageForksHash[a].position = position
             /\ Len(after.messageForksHash[a].lists) = n - 1
             /\ TimelineIn(after, a) = UpToAnchor(Session, a) \o kept[position + 1].messages
             /\ \A k \in 1..(n - 1) :
                    after.messageForksHash[a].lists[k] =
                        IF k = position + 1
                        THEN [kept[k] EXCEPT !.messages = <<>>]
                        ELSE kept[k]

\* C13: deleteFork removes the live branch and drops the live tail: with no
\* branch left the entry is removed and the timeline ends at the anchor;
\* otherwise position is min(position, number of branches left - 1), that
\* branch's messages become the tail after the anchor and its slot is empty.
C13_DeleteFork ==
    \A a \in DOMAIN messageForksHash :
        AnchorInTimeline(Session, a) =>
            /\ DeleteForkExpected(a, buildDeleteForkPatch(Session, a))
            /\ \A b \in DOMAIN messageForksHash \ {a} :
                /\ b \in DOMAIN buildDeleteForkPatch(Session, a).messageForksHash
                /\ buildDeleteForkPatch(Session, a).messageForksHash[b] = messageForksHash[b]

\* deleteFork has left one branch of two, and spliced it in after the anchor
C13_Witness ==
    \E a \in DOMAIN messageForksHash :
        /\ lastForkOp = [op |-> "deleteFork", anchor |-> a]
        /\ a \in IdSet(messages)
        /\ Len(messageForksHash[a].lists) = 1
        /\ messageForksHash[a].position = 0
        /\ LiveTail(Session, a) # <<>>

-----------------------------------------------------------------------------
(* Properties of needsCompaction and of the context-token cache *)

\* auto-compaction is disabled for the session: the session-level setting when
\* it is defined, else the global one, else enabled
AutoCompactionDisabled(s) ==
    \/ s.sessionAutoCompaction = "off"
    \/ s.sessionAutoCompaction = "undefined" /\ s.globalAutoCompaction = "off"

\* what needsCompaction answers in the current state when a miss would be
\* estimated at estimatedTokens
NeedsCompactionNow(estimatedTokens) ==
    needsCompaction(sessionExists, modelConfigured, messages, compactionPoints,
                    highlightContextRoles, settings, queryCache, estimatedTokens)

\* C14: needsCompaction returns false whenever auto-compaction is disabled for
\* the session (session-level setting when defined, else the global one, else
\* enabled), whatever the token totals or the cache contents, and also when the
\* session does not exist or no model is configured.
C14_DisabledNeverNeedsCompaction ==
    /\ \A estimatedTokens \in TokenTotals :
          (AutoCompactionDisabled(settings) \/ ~sessionExists \/ ~modelConfigured) =>
              /\ NeedsCompactionNow(estimatedTokens).value = FALSE
              /\ NeedsCompactionNow(estimatedTokens).cache = queryCache
    /\ isAutoCompactionEnabled(settings.sessionAutoCompaction,
                               settings.globalAutoCompaction)
          = ~AutoCompactionDisabled(settings)
    /\ (needs.called /\ ~needs.enabled) => needs.value = FALSE

\* needsCompaction was called with the session override off and the global
\* setting on, while the cache holds an overflowing total for the session
C14_Witness ==
    /\ sessionExists
    /\ modelConfigured
    /\ settings.sessionAutoCompaction = "off"
    /\ settings.globalAutoCompaction = "on"
    /\ CacheHit(queryCache, CurrentCacheKey)
    /\ checkOverflow(queryCache[CurrentCacheKey].contextTokens)
    /\ needs.called
    /\ ~needs.enabled
    /\ needs.value = FALSE

\* the parameters keys are built from
KeyParams ==
    [sessionId : {SessionId, "s2"},
     maxContextMessageCount : MessageCounts,
     latestContextMessageId : {NoId, 3},
     latestCompactionBoundaryId : {NoId, 2},
     tokenizerType : TokenizerTypes]

\* the settings with another maxContextMessageCount
WithCount(s, count) == [s EXCEPT !.maxContextMessageCount = count]

KeyParamsWithCount(count) ==
    CacheKeyParams(SessionId, messages, compactionPoints, highlightContextRoles,
                   WithCount(settings, count))

\* the other four fields of the key are what they are now
OtherFieldsUnchanged(count) ==
    KeyParamsWithCount(count) =
        [KeyParamsWithCount(settings.maxContextMessageCount)
            EXCEPT !.maxContextMessageCount = count]

\* C15: two cache keys that differ in any of the five fields are different keys;
\* after an entry is stored, changing maxContextMessageCount with the other four
\* fields unchanged gives another key, and needsCompaction then answers from the
\* entry of that key or from a new estimate, never from the stored entry.
C15_KeyDistinguishesFields ==
    /\ \A p, q \in KeyParams :
          p # q => getContextTokensCacheKey(p) # getContextTokensCacheKey(q)
    /\ \A count \in MessageCounts \ {settings.maxContextMessageCount} :
          (CacheHit(queryCache, CurrentCacheKey) /\ OtherFieldsUnchanged(count)) =>
              LET key == getContextTokensCacheKey(KeyParamsWithCount(count))
              IN  /\ key # CurrentCacheKey
                  /\ \A estimatedTokens \in TokenTotals :
                        LET call == needsCompaction(sessionExists, modelConfigured,
                                        messages, compactionPoints,
                                        highlightContextRoles,
                                        WithCount(settings, count), queryCache,
                                        estimatedTokens)
                        IN  (sessionExists /\ modelConfigured
                                /\ ~AutoCompactionDisabled(settings)) =>
                               /\ call.cache[CurrentCacheKey] = queryCache[CurrentCacheKey]
                               /\ call.value =
                                    IF CacheHit(queryCache, key)
                                    THEN checkOverflow(queryCache[key].contextTokens)
                                    ELSE checkOverflow(estimatedTokens)

\* an overflowing total is stored under the key without a limit, the limit was
\* then set, and needsCompaction answered false from a new estimate
C15_Witness ==
    /\ settings.maxContextMessageCount = 1
    /\ OtherFieldsUnchanged(NoLimit)
    /\ CacheHit(queryCache, getContextTokensCacheKey(KeyParamsWithCount(NoLimit)))
    /\ checkOverflow(
          queryCache[getContextTokensCacheKey(KeyParamsWithCount(NoLimit))].contextTokens)
    /\ CacheHit(queryCache, CurrentCacheKey)
    /\ ~checkOverflow(queryCache[CurrentCacheKey].contextTokens)
    /\ needs.called
    /\ needs.enabled
    /\ needs.value = FALSE

-----------------------------------------------------------------------------
(* Properties of the Thread Archive *)

\* the message ids a fork map stores in its branches
BranchIds(forks) == UNION {StoredIds(forks[a]) : a \in DOMAIN forks}

\* the message ids of a timeline: inline, or in a branch of its fork map
TimelineIds(msgs, forks) == IdSet(msgs) \cup BranchIds(forks)

\* the message ids compaction points name
PointIds(cps) ==
    UNION {{cps[i].boundaryMessageId, cps[i].summaryMessageId} : i \in 1..Len(cps)}

\* a fork map and compaction points that name only messages of the timeline
\* they belong to
OwnReferences(msgs, forks, cps) ==
    /\ DOMAIN forks \subseteq TimelineIds(msgs, forks)
    /\ PointIds(cps) \subseteq TimelineIds(msgs, forks)

\* C16: in every state reachable by fork, thread-archive and compaction
\* operations, the fork entries and compaction points of every archived thread
\* reference only message ids of that thread's own timeline, and the live fork
\* map and live compaction points reference only message ids of the live
\* timeline.
C16_ReferencesStayInTimeline ==
    /\ OwnReferences(messages, messageForksHash, compactionPoints)
    /\ \A t \in 1..Len(threads) :
          OwnReferences(threads[t].messages, threads[t].messageForksHash,
                        ThreadCompactionPoints(threads[t]))

\* an archive operation that finds its boundary, applied to the session as it is
ArchiveCases ==
    {c \in [op : ArchiveOps, arg : (1..MaxThreadId) \cup {NoId}] :
        IF c.op = "newThreadFromHere"
        THEN c.arg \in IdSet(messages)
        ELSE c.arg = NoId}

\* what an archive operation is to leave: one more thread, which holds the
\* previous live timeline with its fork map and its compaction points, and a
\* new live timeline with no fork map and no compaction points
ArchiveExpected(before, after) ==
    /\ Len(after.threads) = Len(before.threads) + 1
    /\ Take(after.threads, Len(before.threads)) = before.threads
    /\ LET thread == after.threads[Len(after.threads)]
       IN  /\ thread.messages = before.messages
           /\ thread.messageForksHash = before.messageForksHash
           /\ ThreadCompactionPoints(thread) = before.compactionPoints
    /\ IdSet(after.messages) \cap IdSet(before.messages) = {}
    /\ Len(after.messages) <= Len(before.messages) + 1
    /\ after.messageForksHash = NoForks
    /\ after.compactionPoints = <<>>

\* C17: each archive operation (new thread, thread from here, compress to new
\* thread) appends one thread that holds the previous live timeline with its
\* fork map and its compaction points, and leaves a new minimal live timeline
\* with an empty fork map and no compaction points.
C17_ArchiveSnapshotsAndClears ==
    \A c \in ArchiveCases :
        ArchiveExpected(FullSession, Written(c.op, c.arg, FullSession, FullSession, nextId))

\* the timelines a session holds
Timelines(session) ==
    {session.messages} \cup {session.threads[t].messages : t \in 1..Len(session.threads)}

\* how often a session holds a timeline
TimelineCount(session, msgs) ==
    (IF session.messages = msgs THEN 1 ELSE 0)
        + Cardinality({t \in 1..Len(session.threads) : session.threads[t].messages = msgs})

\* what switchThread is to leave when the target exists
SwitchExpected(before, threadId, after) ==
    LET target == before.threads[FindThread(before, threadId)]
        last == after.threads[Len(after.threads)]
    IN  /\ after.messages = target.messages
        /\ after.messageForksHash = target.messageForksHash
        /\ after.compactionPoints = ThreadCompactionPoints(target)
        /\ threadId \notin ThreadIds(after)
        /\ Len(after.threads) = Len(before.threads)
        /\ last.messages = before.messages
        /\ last.messageForksHash = before.messageForksHash
        /\ ThreadCompactionPoints(last) = before.compactionPoints
        /\ \A msgs \in Timelines(before) \cup Timelines(after) :
                TimelineCount(after, msgs) = TimelineCount(before, msgs)

\* C18: switchThread on an existing thread makes the target's timeline, fork
\* map and compaction points the live ones, removes the target from threads
\* and appends a thread that holds the previous live timeline with its fork map
\* and compaction points; the number of threads is unchanged and no timeline is
\* lost or duplicated.  With an unknown target the session is unchanged.
C18_SwitchThreadSwaps ==
    \A threadId \in (1..MaxThreadId) \cup {NoId} :
        LET after == switchThreadPatch(FullSession, threadId, nextId)
        IN  IF threadId \in ThreadIds(FullSession)
            THEN SwitchExpected(FullSession, threadId, after)
            ELSE after = FullSession

\* every message id the session holds, in a timeline or in a branch
SessionIds(session) ==
    TimelineIds(session.messages, session.messageForksHash)
        \cup UNION {TimelineIds(session.threads[t].messages,
                                session.threads[t].messageForksHash) :
                        t \in 1..Len(session.threads)}

\* the thread operations that remove no message in any serial order
KeepingOps == ArchiveOps \cup {"switchThread"}

\* the session after the step
FullSessionNext ==
    [messages |-> messages', threads |-> threads',
     messageForksHash |-> messageForksHash', compactionPoints |-> compactionPoints']

\* the write of a thread operation that read the session before another
\* update was committed
StaleWrite ==
    /\ threadOp # NoThreadOp
    /\ threadOp' = NoThreadOp
    /\ threadOp.read # FullSession

\* C19: a thread operation interleaved at its awaits with a compaction commit,
\* a fork operation or another thread operation loses no committed update: its
\* write is the operation applied to the store's latest session, so a message
\* or a thread committed in between is still in the session after the write of
\* an operation that removes nothing.
C19_NoLostUpdate ==
    [][StaleWrite =>
        /\ FullSessionNext =
                IF ReturnsEarly(threadOp.op, threadOp.arg, FullSession)
                THEN FullSession
                ELSE Written(threadOp.op, threadOp.arg, FullSession, FullSession, nextId)
        /\ threadOp.op \in KeepingOps =>
                SessionIds(FullSession) \subseteq SessionIds(FullSessionNext)]_vars

-----------------------------------------------------------------------------
(* Properties of the compaction status *)

\* the changes of status the state machine of the compaction UI allows
StatusTransitions ==
    {<<"idle", "running">>, <<"running", "idle">>, <<"running", "failed">>,
     <<"failed", "running">>}

\* a call that was admitted returns and its result is shown
ResultShown(p) == pc[p] \in InFlight /\ pc'[p] = "done"

\* C20: under any interleaving of runCompaction calls on the session, the
\* status the UI shows only changes idle -> running, running -> idle,
\* running -> failed and failed -> running; the result of a compaction is never
\* shown on a status that is not running (no idle -> failed, no idle -> idle).
C20_StatusTransitions ==
    [][/\ uiState'.status # uiState.status =>
            <<uiState.status, uiState'.status>> \in StatusTransitions
       /\ \A p \in Calls : ResultShown(p) => uiState.status = "running"]_vars

-----------------------------------------------------------------------------
(* Further properties of the Fork Engine *)

\* C21: after any Fork Engine operation no entry with at most one branch
\* remains in the fork map: an entry whose lists would have length <= 1 is
\* removed from the map.
C21_NoEntryWithOneBranch ==
    \A a \in DOMAIN messageForksHash : Len(messageForksHash[a].lists) >= 2

\* how often a message occurs in a sequence
Occurrences(msgs, m) == Cardinality({i \in 1..Len(msgs) : msgs[i] = m})

\* two sequences hold the same messages, each as often
SameMessages(left, right) ==
    \A m \in {left[i] : i \in 1..Len(left)} \cup {right[i] : i \in 1..Len(right)} :
        Occurrences(left, m) = Occurrences(right, m)

\* the messages held by the timeline of anchor a and by the branches of a's
\* entry of the fork map
Held(session, a) ==
    TimelineIn(session, a)
        \o (IF a \in DOMAIN session.messageForksHash
            THEN FlatMessages(session.messageForksHash[a].lists)
            ELSE <<>>)

\* C27: createNewFork, switchFork, switchForkToPosition and expandFork keep the
\* multiset of the messages held by the affected timeline and all branches of
\* the affected entry (nothing is lost or duplicated); deleteFork removes
\* exactly the messages of the live tail after the anchor.
C27_MessageConservation ==
    \A a \in AnchorIds :
        AnchorInTimeline(Session, a) =>
            /\ SameMessages(Held(buildCreateForkPatch(Session, a), a), Held(Session, a))
            /\ \A direction \in ForkDirections :
                  SameMessages(Held(buildSwitchForkPatch(Session, a, direction), a),
                               Held(Session, a))
            /\ \A targetPosition \in -1..MaxBranches :
                  SameMessages(Held(switchForkToPositionPatch(Session, a, targetPosition), a),
                               Held(Session, a))
            /\ SameMessages(Held(buildExpandForkPatch(Session, a), a), Held(Session, a))
            /\ a \in DOMAIN messageForksHash =>
                  SameMessages(Held(buildDeleteForkPatch(Session, a), a)
                                    \o LiveTail(Session, a),
                               Held(Session, a))

\* expandFork has put a stored branch inline after a message that was sent
\* later: the entry is gone and every message is in the timeline
C27_Witness ==
    \E a \in IdSet(messages) :
        /\ lastForkOp = [op |-> "expandFork", anchor |-> a]
        /\ a \notin DOMAIN messageForksHash
        /\ \E i, j \in 1..Len(messages) :
              /\ FindIndexById(messages, a) < i
              /\ i < j
              /\ messages[i].id > messages[j].id

\* the entry createNewFork starts from: the anchor's entry, or a new entry
\* with one empty branch
EntryBeforeCreate(a) ==
    IF a \in DOMAIN messageForksHash
    THEN messageForksHash[a]
    ELSE ForkEntry(0, <<ForkList(NewListId, <<>>)>>)

WrappedPosition(direction, position, n) ==
    IF direction = "next"
    THEN (IF position = n - 1 THEN 0 ELSE position + 1)
    ELSE (IF position = 0 THEN n - 1 ELSE position - 1)

\* switchFork(a) meets an entry with at least two branches and a live tail
SwitchWithTailCase(a) ==
    /\ a \in DOMAIN messageForksHash
    /\ AnchorInTimeline(Session, a)
    /\ Len(messageForksHash[a].lists) >= 2
    /\ LiveTail(Session, a) # <<>>

\* C29: switchFork on an entry with n >= 2 branches and a non-empty live tail
\* stores the live tail in lists[old position], sets position to
\* (old position + 1) mod n for next and (old position - 1) mod n for prev,
\* makes the messages stored in that branch the tail after the anchor and
\* stores that branch's slot empty; every other branch is unchanged.
C29_SwitchFork ==
    \A a \in AnchorIds, direction \in ForkDirections :
        SwitchWithTailCase(a) =>
            LET after == buildSwitchForkPatch(Session, a, direction)
                old == messageForksHash[a]
                n == Len(old.lists)
                target == WrappedPosition(direction, old.position, n)
            IN  /\ a \in DOMAIN after.messageForksHash
                /\ LET new == after.messageForksHash[a]
                   IN  /\ Len(new.lists) = n
                       /\ new.position = target
                       /\ new.lists[old.position + 1] =
                            [old.lists[old.position + 1] EXCEPT
                                !.messages = LiveTail(Session, a)]
                       /\ new.lists[target + 1] =
                            [old.lists[target + 1] EXCEPT !.messages = <<>>]
                       /\ \A k \in 1..n :
                             k \notin {old.position + 1, target + 1} =>
                                new.lists[k] = old.lists[k]
                /\ TimelineIn(after, a) =
                        UpToAnchor(Session, a) \o old.lists[target + 1].messages

\* switchFork has acted on an entry with three branches: a tail is stored in
\* another slot, the slot of the live branch is empty and its messages are
\* the tail after the anchor
C29_Witness ==
    \E a \in IdSet(messages) \cap DOMAIN messageForksHash :
        /\ lastForkOp = [op |-> "switchFork", anchor |-> a]
        /\ Len(messageForksHash[a].lists) = 3
        /\ messageForksHash[a].lists[messageForksHash[a].position + 1].messages = <<>>
        /\ StoredIds(messageForksHash[a]) # {}
        /\ LiveTail(Session, a) # <<>>

\* switchFork(a) meets an entry with at least two branches and an empty tail
SwitchWithoutTailCase(a) ==
    /\ a \in DOMAIN messageForksHash
    /\ AnchorInTimeline(Session, a)
    /\ Len(messageForksHash[a].lists) >= 2
    /\ LiveTail(Session, a) = <<>>

\* the branches of the entry without the live one, in their order
PrunedLists(forkEntry) ==
    LET live == forkEntry.position + 1
    IN  [k \in 1..(Len(forkEntry.lists) - 1) |->
            forkEntry.lists[IF k < live THEN k ELSE k + 1]]

\* C30: switchFork on an entry whose live tail is empty first removes the
\* live branch from lists. If at most one branch remains, its messages (if
\* any) become the tail after the anchor and the entry is removed from the
\* fork map; otherwise the switch goes over the pruned list: the empty branch
\* is not kept, the position is a valid index of the pruned list, the
\* messages of that branch become the tail and its slot is stored empty.
C30_SwitchForkPrunes ==
    \A a \in AnchorIds, direction \in ForkDirections :
        SwitchWithoutTailCase(a) =>
            LET after == buildSwitchForkPatch(Session, a, direction)
                pruned == PrunedLists(messageForksHash[a])
            IN  IF Len(pruned) <= 1
                THEN /\ a \notin DOMAIN after.messageForksHash
                     /\ TimelineIn(after, a) =
                            UpToAnchor(Session, a) \o
                                (IF Len(pruned) = 1 THEN pruned[1].messages ELSE <<>>)
                ELSE /\ a \in DOMAIN after.messageForksHash
                     /\ LET new == after.messageForksHash[a]
                        IN  /\ Len(new.lists) = Len(pruned)
                            /\ new.position \in 0..(Len(pruned) - 1)
                            /\ new.lists =
                                 [pruned EXCEPT ![new.position + 1].messages = <<>>]
                            /\ TimelineIn(after, a) =
                                 UpToAnchor(Session, a) \o
                                     pruned[new.position + 1].messages

\* the anchor of the live timeline has three branches, the live one is the
\* last and has lost its tail: switchFork prunes it and goes on over the two
\* that remain, whose position the code adjusts
C30_Witness ==
    \E a \in IdSet(messages) \cap DOMAIN messageForksHash :
        /\ SwitchWithoutTailCase(a)
        /\ Len(messageForksHash[a].lists) = 3
        /\ messageForksHash[a].position = 2
        /\ LET after == buildSwitchForkPatch(Session, a, "next")
           IN  /\ a \in DOMAIN after.messageForksHash
               /\ Len(after.messageForksHash[a].lists) = 2
               /\ after.messageForksHash[a].position = 0
               /\ Len(after.messages) > Len(messages)

\* the positions switchForkToPosition is called with: the indices of the
\* greatest entry, one below and one above them
TargetPositions == -1..MaxBranches

\* switchForkToPosition(a, targetPosition) returns the session it was given
SwitchToPositionRefused(a, targetPosition) ==
    \/ a \notin DOMAIN messageForksHash
    \/ targetPosition < 0
    \/ targetPosition >= Len(messageForksHash[a].lists)
    \/ targetPosition = messageForksHash[a].position

\* C31: switchForkToPosition leaves the session unchanged when targetPosition
\* is negative or >= lists.length, when it equals the current position and
\* when the anchor has no entry; otherwise, the anchor being in a timeline,
\* it stores the live tail in lists[old position], makes the messages of
\* lists[targetPosition] the tail after the anchor, stores that slot empty
\* and sets position to targetPosition, the other branches being unchanged.
C31_SwitchForkToPosition ==
    \A a \in AnchorIds, targetPosition \in TargetPositions :
        LET after == switchForkToPositionPatch(Session, a, targetPosition)
        IN  IF SwitchToPositionRefused(a, targetPosition)
            THEN after = Session
            ELSE AnchorInTimeline(Session, a) =>
                    LET old == messageForksHash[a]
                    IN  /\ a \in DOMAIN after.messageForksHash
                        /\ LET new == after.messageForksHash[a]
                           IN  /\ new.position = targetPosition
                               /\ Len(new.lists) = Len(old.lists)
                               /\ \A k \in 1..Len(old.lists) :
                                    /\ new.lists[k].id = old.lists[k].id
                                    /\ new.lists[k].messages =
                                         IF k = old.position + 1
                                         THEN LiveTail(Session, a)
                                         ELSE IF k = targetPosition + 1
                                         THEN <<>>
                                         ELSE old.lists[k].messages
                        /\ TimelineIn(after, a) =
                             UpToAnchor(Session, a) \o
                                 old.lists[targetPosition + 1].messages

\* switchForkToPosition has gone from the last, empty branch of three to the
\* first: the empty tail is stored in the last slot, the first slot is
\* empty and its messages are the tail after the anchor
C31_Witness ==
    \E a \in IdSet(messages) \cap DOMAIN messageForksHash :
        /\ lastForkOp = [op |-> "switchForkToPosition", anchor |-> a]
        /\ Len(messageForksHash[a].lists) = 3
        /\ messageForksHash[a].position = 0
        /\ messageForksHash[a].lists[1].messages = <<>>
        /\ messageForksHash[a].lists[2].messages # <<>>
        /\ messageForksHash[a].lists[3].messages = <<>>
        /\ LiveTail(Session, a) # <<>>

\* switchFork(a) has nothing to switch: no entry for the anchor (a session
\* without fork map has none), an entry of at most one branch, or an anchor
\* that is in no timeline
NothingToSwitch(a) ==
    \/ a \notin DOMAIN messageForksHash
    \/ Len(messageForksHash[a].lists) <= 1
    \/ ~AnchorInTimeline(Session, a)

\* C32: switchFork returns the session unchanged when the session has no
\* fork map, when the anchor has no entry, when the entry has at most one
\* branch and when the anchor message is neither in the live timeline nor in
\* a thread; the updater has a value in each of these cases.
C32_SwitchForkRefuses ==
    \A a \in AnchorIds, direction \in ForkDirections :
        NothingToSwitch(a) => buildSwitchForkPatch(Session, a, direction) = Session

\* switchFork was called on an anchor of the live timeline whose entry has
\* one branch and whose tail is not empty, and has left both as they were
C32_Witness ==
    \E a \in IdSet(messages) \cap DOMAIN messageForksHash :
        /\ lastForkOp = [op |-> "switchFork", anchor |-> a]
        /\ Len(messageForksHash[a].lists) = 1
        /\ LiveTail(Session, a) # <<>>

\* the branches of the entry of a with the live tail at the live position
BranchesWithLiveTail(session, a) ==
    LET forkEntry == session.messageForksHash[a]
    IN  [k \in 1..Len(forkEntry.lists) |->
            IF k = forkEntry.position + 1
            THEN [forkEntry.lists[k] EXCEPT !.messages = LiveTail(session, a)]
            ELSE forkEntry.lists[k]]

\* C33: expandFork replaces everything after the anchor by one tail, the
\* concatenation of the messages of all branches in list order, the messages
\* of the live branch at the position of the live branch, and removes the
\* entry from the fork map.
C33_ExpandFork ==
    \A a \in AnchorIds :
        (a \in DOMAIN messageForksHash /\ AnchorInTimeline(Session, a)) =>
            LET after == buildExpandForkPatch(Session, a)
            IN  /\ a \notin DOMAIN after.messageForksHash
                /\ TimelineIn(after, a) =
                        UpToAnchor(Session, a) \o
                            FlatMessages(BranchesWithLiveTail(Session, a))

-----------------------------------------------------------------------------
(* Further properties of the Thread Archive *)

\* the operations that replace or discard the live timeline
DiscardingOps == ArchiveOps \cup {"switchThread", "removeCurrentThread"}

\* the write of a thread operation that replaces or discards the live timeline
DiscardingWrite ==
    /\ threadOp # NoThreadOp
    /\ threadOp' = NoThreadOp
    /\ threadOp.op \in DiscardingOps
    /\ ~ReturnsEarly(threadOp.op, threadOp.arg, threadOp.read)

\* C22: every operation that replaces or discards the live timeline
\* (switchThread, new thread, thread from here, compress to new thread,
\* removeCurrentThread) invokes the cancel hook of every message of the live
\* timeline before it writes the new session state.
C22_CancelBeforeDiscard ==
    [][DiscardingWrite => IdSet(messages) \subseteq cancelled']_vars

-----------------------------------------------------------------------------
(* Further properties of the compaction orchestrator *)

\* an admitted call returns
AdmittedReturns(p) == pc[p] \in InFlight /\ pc'[p] = "done"

\* the awaits an admitted call reaches only after it called the summarizer
AfterSummarizerCall == {"summarizing", "updateSession"}

\* C23 as stated: every compaction admitted past the in-flight guard invokes
\* the summarizer exactly once before it returns.
C23_SummarizerExactlyOnce ==
    [][\A p \in Calls : AdmittedReturns(p) => summarizerCalls'[p] = 1]_vars

\* C23 amended: an admitted compaction invokes the summarizer at most once,
\* and exactly once unless it returns before the summarization (session not
\* found, no model configured, or a read of the store that fails), in which
\* case it does not invoke it.
C23_SummarizerAtMostOnce ==
    [][\A p \in Calls :
          /\ summarizerCalls'[p] <= 1
          /\ AdmittedReturns(p) =>
                summarizerCalls'[p] = IF pc[p] \in AfterSummarizerCall THEN 1 ELSE 0]_vars

\* two admitted calls have returned: one after its one call of the
\* summarizer, the other before it with the session missing
C23_Witness ==
    \E p, q \in Calls :
        /\ pc[p] = "done" /\ pc[q] = "done"
        /\ summarizerCalls[p] = 1
        /\ result[p].error = "summarizer error"
        /\ summarizerCalls[q] = 0
        /\ result[q].error = "Session not found"

\* C25: whenever the session is in the in-flight compaction set (a
\* summarization is admitted and has not finished) the UI compaction status
\* of the session is 'running'; a second runCompaction call that the guard
\* skips does not change the status away from 'running'.
C25_RunningWhileInFlight ==
    SessionId \in ongoingCompactions => uiState.status = "running"

\* C26: immediately after a compaction commit, the boundaryMessageId and the
\* summaryMessageId of the new compaction point both identify messages of the
\* live timeline the point was appended to, even if the live timeline was
\* changed while the summarization was awaited.
C26_PointNamesLiveMessages ==
    [][\A p \in Calls :
            Commits(p) =>
                LET point == compactionPoints'[Len(compactionPoints')]
                IN  /\ point.summaryMessageId \in IdSet(messages')
                    /\ point.boundaryMessageId \in IdSet(messages')]_vars

-----------------------------------------------------------------------------
(* Properties of interleaved fork and thread operations *)

\* the branches a fork map stores, each named by its anchor and its index
BranchSlots(forks) ==
    {s \in (DOMAIN forks) \X (1..MaxBranches) : s[2] <= Len(forks[s[1]].lists)}

BranchAt(forks, s) == forks[s[1]].lists[s[2]].messages

\* each message id occurs at most once among a timeline and the branches its
\* fork map stores
IdsOccurOnce(msgs, forks) ==
    /\ Cardinality(IdSet(msgs)) = Len(msgs)
    /\ \A s \in BranchSlots(forks) :
          /\ Cardinality(IdSet(BranchAt(forks, s))) = Len(BranchAt(forks, s))
          /\ IdSet(BranchAt(forks, s)) \cap IdSet(msgs) = {}
          /\ \A r \in BranchSlots(forks) \ {s} :
                IdSet(BranchAt(forks, s)) \cap IdSet(BranchAt(forks, r)) = {}

\* a step of an operation that is to remove no message: not deleteFork,
\* removeThread or removeCurrentThread, and not a write after a stale read
ConservingStep ==
    /\ ~StaleWrite
    /\ threadOp' = NoThreadOp /\ threadOp # NoThreadOp => threadOp.op \in KeepingOps
    /\ threadOp' = threadOp /\ compactionPoints' = compactionPoints =>
            lastForkOp'.op # "deleteFork"

\* C24: in every state reachable by interleaving fork operations with thread
\* operations, each message id occurs at most once among the live timeline and
\* the branches stored in the live fork map, and a branch reachable before an
\* operation is still reachable after it: archiving the live timeline,
\* switching a fork on an anchor of the archived thread and switching back to
\* the thread neither duplicates nor loses a branch.
C24_BranchesUniqueAndKept ==
    [][/\ IdsOccurOnce(messages', messageForksHash')
       /\ ConservingStep => SessionIds(FullSession) \subseteq SessionIds(FullSessionNext)]_vars


-----------------------------------------------------------------------------
(* Frame of the fork operations *)

\* every id the session has given to a message, and one no message carries
EveryAnchor == AnchorIds \cup (1..MaxThreadId)

\* the timeline archived first: a system prompt and a user message, with
\* the ids that follow those of the timeline the session starts with
EarlierTimeline ==
    <<Msg(FirstFreshId, "system", FALSE, FALSE, FALSE),
      Msg(FirstFreshId + 1, "user", FALSE, FALSE, FALSE)>>

\* a session after two "new thread": two archived timelines, each with its
\* (empty) fork map, and a live timeline that holds a new system prompt
TwoThreadsInit ==
    /\ compactionPoints = <<>>
    /\ highlightContextRoles = NoFilter
    /\ sessionExists = TRUE
    /\ modelConfigured = TRUE
    /\ context = <<>>
    /\ built = "none"
    /\ ongoingCompactions = {}
    /\ uiState = UIState("idle", NoError, "")
    /\ pc = [p \in Calls |-> "idle"]
    /\ result = [p \in Calls |-> NoResult]
    /\ snapshot = [p \in Calls |-> <<>>]
    /\ pending = [p \in Calls |-> NoPending]
    /\ summarizerCalls = [p \in Calls |-> 0]
    /\ options = [p \in Calls |-> NoId]
    /\ now = 1
    /\ messageForksHash = NoForks
    /\ lastForkOp = NoForkOp
    /\ TokensIdle
    /\ ThreadsIdle
    /\ messages = <<Msg(MaxThreadId, "system", FALSE, FALSE, FALSE)>>
    /\ threads = <<SessionThread(1, EarlierTimeline, NoForks),
                   SessionThread(2, InitialTimeline, NoForks)>>
    /\ nextId = MaxThreadId + 1

TwoThreadsNext ==
    \/ \E a \in EveryAnchor : createNewFork(a)
    \/ \E a \in EveryAnchor, direction \in ForkDirections : switchFork(a, direction)
    \/ \E a \in EveryAnchor, targetPosition \in -1..MaxBranches :
            switchForkToPosition(a, targetPosition)
    \/ \E a \in EveryAnchor : deleteFork(a)
    \/ \E a \in EveryAnchor : expandFork(a)

SpecTwoThreads == TwoThreadsInit /\ [][TwoThreadsNext]_vars

\* the sessions the five operations make of the session, called on anchor a
ForkOpResults(a) ==
    {buildCreateForkPatch(Session, a), buildDeleteForkPatch(Session, a),
     buildExpandForkPatch(Session, a)}
        \cup {buildSwitchForkPatch(Session, a, direction) :
                direction \in ForkDirections}
        \cup {switchForkToPositionPatch(Session, a, targetPosition) :
                targetPosition \in TargetPositions}

\* the timelines whose messages differ in after: 0 is the live timeline, t
\* the t-th thread
ChangedTimelines(after) ==
    {t \in 0..Len(threads) :
        IF t = 0 THEN after.messages # messages
                 ELSE after.threads[t].messages # threads[t].messages}

\* the first timeline that holds anchor a, the live one before the threads
\* in their order; none if no timeline holds it
FirstTimelineOf(a) ==
    IF a \in IdSet(messages)
    THEN {0}
    ELSE {t \in 1..Len(threads) :
            /\ a \in IdSet(threads[t].messages)
            /\ \A u \in 1..(t - 1) : a \notin IdSet(threads[u].messages)}

\* C34: a fork operation changes the messages of at most one timeline: the
\* live timeline if the anchor is there, otherwise the first thread, in the
\* order of threads, that holds it.  The messages of every other timeline,
\* the other fields of every thread and every fork entry but the anchor's
\* are as they were.
C34_OneTimelinePerCall ==
    \A a \in EveryAnchor :
        \A after \in ForkOpResults(a) :
            /\ Len(after.threads) = Len(threads)
            /\ \A t \in 1..Len(threads) :
                    [after.threads[t] EXCEPT !.messages = threads[t].messages]
                        = threads[t]
            /\ Cardinality(ChangedTimelines(after)) <= 1
            /\ ChangedTimelines(after) \subseteq FirstTimelineOf(a)
            /\ DOMAIN after.messageForksHash \ {a} = DOMAIN messageForksHash \ {a}
            /\ \A b \in DOMAIN messageForksHash \ {a} :
                    after.messageForksHash[b] = messageForksHash[b]

\* createNewFork has cut the second of two threads at its anchor, which
\* neither the live timeline nor the first thread holds; the first thread
\* and the live timeline are not empty
C34_Witness ==
    \E a \in DOMAIN messageForksHash :
        /\ lastForkOp = [op |-> "createNewFork", anchor |-> a]
        /\ Len(threads) = 2
        /\ FirstTimelineOf(a) = {2}
        /\ threads[2].messages[Len(threads[2].messages)].id = a
        /\ messageForksHash[a].lists[1].messages # <<>>
        /\ threads[1].messages # <<>>
        /\ messages # <<>>


-----------------------------------------------------------------------------
(* Further properties of the context builder *)

\* the boundary of the latest point is stale: it is the id of no
\* non-generating message of the timeline
StaleBoundary(msgs, cps) == Len(cps) > 0 /\ ~BoundaryPresent(msgs, cps)

\* C35: when the boundaryMessageId of the latest compaction point is not the
\* id of a non-generating message of the timeline, buildContext returns what
\* it returns with no compaction point at all, the non-generating messages
\* of the whole timeline in timeline order; it is not cut at an older point.
C35_StaleBoundaryFallsBack ==
    (built = "ai" /\ ~highlightContextRoles.defined
        /\ StaleBoundary(messages, compactionPoints))
    => /\ context = buildContextForSession(messages, <<>>, highlightContextRoles)
       /\ Ids(context) = Ids(NonGenerating(messages))
       /\ NoOldToolRounds(NonGenerating(messages)) => context = NonGenerating(messages)

\* the latest of two points is stale, the older one has its boundary at the
\* first message, a user message: the context built holds that message and
\* the one after it
C35_Witness ==
    /\ built = "ai"
    /\ Len(compactionPoints) = 2
    /\ compactionPoints[1].createdAt > compactionPoints[2].createdAt
    /\ StaleBoundary(messages, compactionPoints)
    /\ BoundaryPresent(messages, <<compactionPoints[2]>>)
    /\ Len(messages) = 3
    /\ compactionPoints[1].boundaryMessageId = messages[3].id
    /\ compactionPoints[2].boundaryMessageId = messages[1].id
    /\ messages[1].role = "user"
    /\ Len(context) = 2
    /\ context[1] = messages[1]


-----------------------------------------------------------------------------
(* Further properties of needsCompaction and of the context-token cache *)

\* the context messages needsCompaction derives from the session
ContextMessagesNow ==
    getContextMessagesForTokenEstimation(messages, compactionPoints,
                                         highlightContextRoles,
                                         settings.maxContextMessageCount)

\* needsCompaction gets as far as the cache and finds no entry under the key
MissesCache ==
    /\ sessionExists
    /\ modelConfigured
    /\ isAutoCompactionEnabled(settings.sessionAutoCompaction,
                               settings.globalAutoCompaction)
    /\ CurrentCacheKey \notin DOMAIN queryCache

\* needsCompaction on the session as it is, with the cache and the estimate given
CallOnCache(cache, estimatedTokens) ==
    needsCompaction(sessionExists, modelConfigured, messages, compactionPoints,
                    highlightContextRoles, settings, cache, estimatedTokens)

\* C36: when needsCompaction misses the cache, it stores under the key an
\* entry whose contextTokens is the sum of the token counts known for the
\* context messages and whose messageCount is their number, and decides on
\* that sum; a second call on the same session and settings hits the entry
\* and returns the same decision, whatever the counts known by then.
C36_MissStoresEstimate ==
    MissesCache =>
        \A counts \in KnownTokenCounts(ContextMessagesNow) :
            LET estimate == sumCachedTokensFromMessages(ContextMessagesNow, counts)
                first == CallOnCache(queryCache, estimate)
            IN  /\ CurrentCacheKey \in DOMAIN first.cache
                /\ first.cache[CurrentCacheKey].contextTokens = estimate
                /\ first.cache[CurrentCacheKey].messageCount = Len(ContextMessagesNow)
                /\ \A k \in DOMAIN queryCache :
                        k \in DOMAIN first.cache /\ first.cache[k] = queryCache[k]
                /\ first.value = (estimate > OverflowLimit)
                /\ \A later \in KnownTokenCounts(ContextMessagesNow) :
                        LET second ==
                                CallOnCache(first.cache,
                                    sumCachedTokensFromMessages(ContextMessagesNow, later))
                        IN  /\ second.value = first.value
                            /\ second.cache = first.cache

\* needsCompaction has been called and has answered yes; the entry under the
\* key of the session counts all its context messages and is over the limit,
\* and an entry stored under another key is still there
C36_Witness ==
    /\ needs.called
    /\ needs.value
    /\ CurrentCacheKey \in DOMAIN queryCache
    /\ queryCache[CurrentCacheKey].contextTokens > OverflowLimit
    /\ queryCache[CurrentCacheKey].messageCount = Len(ContextMessagesNow)
    /\ Len(ContextMessagesNow) = Len(InitialTimeline)
    /\ DOMAIN queryCache # {CurrentCacheKey}


-----------------------------------------------------------------------------
(* The latest compaction boundary in the cache key *)

\* a session with the timeline it starts with and any list of up to two
\* compaction points over it
BoundaryKeyInit ==
    /\ messages = InitialTimeline
    /\ compactionPoints \in PointListsOver(InitialTimeline)
    /\ highlightContextRoles = NoFilter
    /\ context = <<>>
    /\ built = "none"
    /\ SessionPresent
    /\ CompactionIdle

\* the context builder and needsCompaction each look for the latest point
BoundaryKeyNext ==
    \/ BuildContext
    \/ \E estimatedTokens \in TokenTotals : NeedsCompaction(estimatedTokens)

SpecBoundaryKey == BoundaryKeyInit /\ [][BoundaryKeyNext]_vars

\* the component of a cache key that holds the latest boundary id
BoundaryIdOfKey(key) == key[5]

\* C37: the latest-boundary id of the cache key is null if and only if the
\* list of compaction points is empty; otherwise it is the boundaryMessageId
\* (the id of a message, never null) of the first listed point among those
\* with the greatest createdAt, the point the context builder takes for the
\* latest.  The keys needsCompaction stores entries under hold that id.
C37_LatestBoundaryId ==
    /\ IF Len(compactionPoints) = 0
       THEN getLatestCompactionBoundaryId(compactionPoints) = NoId
       ELSE /\ getLatestCompactionBoundaryId(compactionPoints) =
                    LatestPoint(compactionPoints).boundaryMessageId
            /\ findLatestCompactionPoint(compactionPoints) =
                    LatestPoint(compactionPoints)
    /\ \A key \in DOMAIN queryCache :
            BoundaryIdOfKey(key) =
                IF Len(compactionPoints) = 0 THEN NoId
                ELSE LatestPoint(compactionPoints).boundaryMessageId

\* two points of the same createdAt with different boundaries: needsCompaction
\* has stored an entry under a key with the boundary of the first, and the
\* context built is the one cut at the boundary of the first
C37_Witness ==
    /\ Len(compactionPoints) = 2
    /\ compactionPoints[1].createdAt = compactionPoints[2].createdAt
    /\ compactionPoints[1].boundaryMessageId = messages[2].id
    /\ compactionPoints[2].boundaryMessageId = messages[1].id
    /\ needs.called
    /\ \E key \in DOMAIN queryCache :
            BoundaryIdOfKey(key) = compactionPoints[1].boundaryMessageId
    /\ built = "ai"
    /\ Ids(context) = <<messages[1].id, messages[3].id>>


-----------------------------------------------------------------------------
(* The context-token cache of a session that changes *)

\* the user changes the role filter of the session
SetRoleFilter(contextRoles) ==
    /\ sessionExists
    /\ contextRoles # highlightContextRoles
    /\ highlightContextRoles' = contextRoles
    /\ UNCHANGED <<messages, compactionPoints, sessionExists, modelConfigured, threads,
                   messageForksHash, contextVars, compactionVars, lastForkOp,
                   tokenVars, threadVars>>

\* the user deletes the i-th message of the live timeline
RemoveMessageAt(i) ==
    /\ sessionExists
    /\ i \in 1..Len(messages)
    /\ messages' = Take(messages, i - 1) \o SliceFrom(messages, i + 1)
    /\ UNCHANGED <<compactionPoints, highlightContextRoles, sessionExists,
                   modelConfigured, threads, messageForksHash, contextVars,
                   compactionVars, lastForkOp, tokenVars, threadVars>>

ChangingSessionInit ==
    /\ messages = InitialTimeline
    /\ compactionPoints = <<>>
    /\ highlightContextRoles = NoFilter
    /\ context = <<>>
    /\ built = "none"
    /\ SessionPresent
    /\ CompactionIdle

ChangingSessionNext ==
    \/ \E estimatedTokens \in TokenTotals : NeedsCompaction(estimatedTokens)
    \/ \E contextTokens \in TokenTotals : StoreContextTokens(contextTokens)
    \/ \E contextRoles \in RoleFilters : SetRoleFilter(contextRoles)
    \/ \E i \in 1..Len(InitialTimeline) : RemoveMessageAt(i)

SpecChangingSession == ChangingSessionInit /\ [][ChangingSessionNext]_vars

\* a call of needsCompaction now gets as far as the cache and finds an entry
HitsCache ==
    /\ sessionExists
    /\ modelConfigured
    /\ isAutoCompactionEnabled(settings.sessionAutoCompaction,
                               settings.globalAutoCompaction)
    /\ CurrentCacheKey \in DOMAIN queryCache

\* C38: whenever needsCompaction hits the cache, the entry was written for
\* the sequence of context message ids derived now: after a change of the
\* role filter, or the removal of a context message that is not the last,
\* a call does not hit the entry stored for the earlier context.
C38_HitIsForSameContext ==
    HitsCache => writtenFor[CurrentCacheKey] = Ids(ContextMessagesNow)


-----------------------------------------------------------------------------
(* Removal of threads *)

\* removeThread(threadId), nothing being committed between its read and its
\* write: the session it leaves
AfterRemoveThread(threadId) ==
    Written("removeThread", threadId, FullSession, FullSession, nextId)

\* removeCurrentThread, likewise
AfterRemoveCurrentThread ==
    Written("removeCurrentThread", NoId, FullSession, FullSession, nextId)

\* C39: removeThread with the id of an archived thread removes that thread
\* and nothing else: the live timeline and the other threads are unchanged.
\* removeCurrentThread makes the thread archived last the live timeline,
\* with its fork map and its compaction points, and removes it from
\* threads; without an archived thread it reduces the live timeline to its
\* first system message.
C39_RemoveThread ==
    /\ \A threadId \in ThreadIds(FullSession) :
            AfterRemoveThread(threadId) =
                [FullSession EXCEPT
                    !.threads = SelectSeq(threads, LAMBDA t : t.id # threadId)]
    /\ IF Len(threads) > 0
       THEN LET last == threads[Len(threads)]
            IN  /\ AfterRemoveCurrentThread.messages = last.messages
                /\ AfterRemoveCurrentThread.messageForksHash = last.messageForksHash
                /\ AfterRemoveCurrentThread.compactionPoints =
                        ThreadCompactionPoints(last)
                /\ AfterRemoveCurrentThread.threads = Take(threads, Len(threads) - 1)
       ELSE /\ AfterRemoveCurrentThread.messages =
                    (IF \E i \in 1..Len(messages) : messages[i].role = "system"
                     THEN <<messages[CHOOSE i \in 1..Len(messages) :
                                /\ messages[i].role = "system"
                                /\ \A j \in 1..(i - 1) : messages[j].role # "system"]>>
                     ELSE <<>>)
            /\ AfterRemoveCurrentThread.threads = <<>>


-----------------------------------------------------------------------------
(* Compaction up to a given message *)

\* options.boundaryMessageId of a call: not set, or the second message of the
\* timeline the session starts with
BoundaryOptions == {NoId, InitialTimeline[2].id}

BoundaryOptionNext ==
    \/ \E p \in Calls, boundaryMessageId \in BoundaryOptions :
            StartWithOptions(p, boundaryMessageId)
    \/ \E p \in Calls : CallStep(p)
    \/ AppendMessage

SpecBoundaryOption == CompactionInit /\ [][BoundaryOptionNext]_vars

\* the messages of msgs from the one with the given id onwards that a
\* context can hold: those that are neither generating nor summaries
FromMessageOnwards(msgs, id) ==
    SelectSeq(SliceFrom(msgs, FindIndexById(msgs, id)),
              LAMBDA m : ~m.generating /\ ~m.isSummary)

\* C40: when runCompaction is called with options.boundaryMessageId set, only
\* the messages before that message are compressed: the boundary of the
\* compaction point it commits is not after the given message, and the
\* messages from the given one onwards remain in the context.
C40_CompactsUpToGivenMessage ==
    [][\A p \in Calls :
        (Commits(p) /\ options[p] \in IdSet(messages)) =>
            LET point == compactionPoints'[Len(compactionPoints')]
                after == buildContextForSession(messages', compactionPoints',
                                                highlightContextRoles')
            IN  /\ FindIndexById(messages', point.boundaryMessageId)
                        <= FindIndexById(messages', options[p])
                /\ IdSet(FromMessageOnwards(messages', options[p]))
                        \subseteq IdSet(after)]_vars

=============================================================================
